---- MODULE Spec2Model ----
(***************************************************************************)
(* Real-time collaboration engine of lowcode-go-backend: Room (per-page    *)
(* actor), Hub (room directory), Client (connection) and the page          *)
(* repository they persist to.                                             *)
(***************************************************************************)
EXTENDS Integers, Sequences, FiniteSets, TLC

\* ---------------------------------------------------------------- bounds
NumClients == 2          \* goroutines calling into one Room (ReadPump readers)
MaxEdits == 2            \* successful edits explored above the starting version
MaxFlushGoroutines == 1  \* threshold flush goroutines alive at once
MaxRooms == 2            \* Room instances constructed along one behaviour
SendCap == 1             \* capacity of Client.send explored (256 in client.go:38)
BroadcastCap == 1        \* capacity of Room.broadcast explored (256 in room.go:67)

\* ------------------------------------------------------ program constants
FlushThreshold == 50     \* room.go:57
IdleRoomCap == 16        \* hub.go:38

Clients == 1..NumClients
Observer == NumClients + 1   \* one more connection, which only listens
Conns == Clients \cup {Observer}
RoomIds == 1..MaxRooms
PageIds == {"page1"}
NoPage == "none"
NoRoom == 0              \* nil *Room
NoClient == 0            \* nil *Client
LoopFlusher == 0         \* flushToDB called by Room.run itself (timer, final)
Flushers == {LoopFlusher} \cup (1..MaxFlushGoroutines)

\* ------------------------------------------------------------- documents
\* A snapshot is a JSON object; the model keeps the members the patches
\* below can address.  Absent marks a member that is not in the object.
Absent == "<absent>"
Keys == {"/components/1/name", "/components/1/desc"}
Values == {"Page", "NewPage"}
NoParentPath == "/nonexistent/path"   \* no parent object: never addressable
Paths == Keys \cup {NoParentPath}

Doc == [Keys -> Values \cup {Absent}]
DefaultSchema == [k \in Keys |-> IF k = "/components/1/name" THEN "Page" ELSE Absent]
Fail == [k \in Keys |-> "<error>"]   \* the error result of Apply

\* One RFC 6902 operation.  op = "" is an operation object without "op".
Operation(op, path, from, value) == [op |-> op, path |-> path, from |-> from, value |-> value]

\* jsonpatch.Patch.Apply, one operation (add/remove/replace/move/copy/test).
ApplyOperation(doc, o) ==
  CASE o.op = "add" ->
         IF o.path \in Keys THEN [doc EXCEPT ![o.path] = o.value] ELSE Fail
    [] o.op = "remove" ->
         IF o.path \in Keys /\ doc[o.path] # Absent
         THEN [doc EXCEPT ![o.path] = Absent] ELSE Fail
    [] o.op = "replace" ->
         IF o.path \in Keys /\ doc[o.path] # Absent
         THEN [doc EXCEPT ![o.path] = o.value] ELSE Fail
    [] o.op = "test" ->
         IF o.path \in Keys /\ doc[o.path] = o.value THEN doc ELSE Fail
    [] o.op = "move" ->
         IF o.from \in Keys /\ o.path \in Keys /\ doc[o.from] # Absent
         THEN [[doc EXCEPT ![o.from] = Absent] EXCEPT ![o.path] = doc[o.from]]
         ELSE Fail
    [] o.op = "copy" ->
         IF o.from \in Keys /\ o.path \in Keys /\ doc[o.from] # Absent
         THEN [doc EXCEPT ![o.path] = doc[o.from]] ELSE Fail
    [] OTHER -> Fail

\* jsonpatch.Patch.Apply: the operations in order on a decoded copy; the
\* first failing operation fails the whole call and nothing is returned.
RECURSIVE PatchApply(_, _)
PatchApply(doc, ops) ==
  IF ops = <<>> THEN doc
  ELSE LET d == ApplyOperation(doc, Head(ops))
       IN IF d = Fail THEN Fail ELSE PatchApply(d, Tail(ops))

\* Patch bodies as they arrive on the wire.
NotJSON == [kind |-> "garbage", ops |-> <<>>]     \* `not valid json`
NotArray == [kind |-> "object", ops |-> <<>>]     \* `{"op": "replace"}`
PatchOf(ops) == [kind |-> "array", ops |-> ops]

\* jsonpatch.DecodePatch: the body must be a JSON array of objects; an
\* operation object without "op" decodes and fails later, in Apply.
DecodeOk(patchBytes) == patchBytes.kind = "array"
DecodePatch(patchBytes) == patchBytes.ops

ReplaceName == PatchOf(<<Operation("replace", "/components/1/name", "", "NewPage")>>)
RestoreName == PatchOf(<<Operation("replace", "/components/1/name", "", "Page")>>)
AddDesc == PatchOf(<<Operation("add", "/components/1/desc", "", "Page")>>)
RemoveDesc == PatchOf(<<Operation("remove", "/components/1/desc", "", "")>>)
MissingOp == PatchOf(<<Operation("", "/components/1/name", "", "NewPage")>>)
ReplaceMissing == PatchOf(<<Operation("replace", NoParentPath, "", "NewPage")>>)
EarlyOkLateFail ==
  PatchOf(<<Operation("replace", "/components/1/name", "", "NewPage"),
            Operation("replace", NoParentPath, "", "NewPage")>>)
TestThenMove ==
  PatchOf(<<Operation("test", "/components/1/name", "", "NewPage"),
            Operation("move", "/components/1/desc", "/components/1/name", "")>>)

\* The patch bodies the callers send.
PatchInputs ==
  {NotJSON, NotArray, MissingOp, ReplaceName, RestoreName, AddDesc, RemoveDesc,
   ReplaceMissing, EarlyOkLateFail, TestThenMove}

NoPatch == [kind |-> "none", ops |-> <<>>]

\* ------------------------------------------------------------------ state
VARIABLES
  roomID,                \* Room.ID, NoPage while the instance is not constructed
  CurrentState,          \* Room.CurrentState
  Version,               \* Room.Version
  lastPersistedVersion,  \* Room.lastPersistedVersion
  loopPc,                \* position of Room.run
  stopping,              \* Room.stopping
  stopChan,              \* Room.stopChan: "open" / "closed"
  doneChan,              \* Room.doneChan: "open" / "closed"
  flush,                 \* flushToDB activations: the loop's and the goroutines'
  db,                    \* the pages table
  call,                  \* each caller's ApplyPatch call and its result
  stopPc,                \* each Stop caller's position
  clients,               \* Room.clients
  clientCount,           \* Room.clientCount
  broadcast,             \* Room.broadcast, the buffered channel
  send,                  \* Client.send, the buffered channel (mailbox)
  sendClosed,            \* close(client.send) has happened
  clientRoom,            \* Client.Room
  rooms,                 \* Hub.rooms
  idleRoom,              \* Hub.idleRoom, the buffered channel
  delPc,                 \* the DeletePage request's position
  hubMu,                 \* Hub.mu: the caller holding the write lock, or NoClient
  hist                   \* history: what the properties need to remember

stateVars == <<CurrentState, Version, lastPersistedVersion>>
lifeVars == <<roomID, loopPc, stopping, stopChan, doneChan>>
memberVars == <<clients, clientCount, broadcast>>
connVars == <<send, sendClosed, clientRoom>>
hubVars == <<rooms, idleRoom, delPc, hubMu>>
vars == <<roomID, CurrentState, Version, lastPersistedVersion, loopPc, stopping,
          stopChan, doneChan, flush, db, call, stopPc, clients, clientCount,
          broadcast, send, sendClosed, clientRoom, rooms, idleRoom, delPc, hubMu,
          hist>>

Stoppers == {"idle1", "idle2"}

IdleFlush ==
  [pc |-> "idle", snapshot |-> DefaultSchema, currentVersion |-> 0,
   lastVersion |-> 0, reason |-> ""]
IdleCall ==
  [pc |-> "idle", room |-> NoRoom, page |-> NoPage, patch |-> NoPatch,
   expected |-> 0, err |-> "", CurrentVersion |-> 0, ExpectedVersion |-> 0,
   reason |-> "", snapshot |-> DefaultSchema, version |-> 0, alias |-> FALSE]
IdleStop == [pc |-> "idle", room |-> 0, calledAt |-> 0, by |-> "caller"]
IdleDelete == [pc |-> "idle", page |-> NoPage, room |-> NoRoom]

\* ------------------------------------------------------ page repository
\* pageRepository.UpdateSchema: UPDATE pages SET schema, version = newVersion
\* WHERE page_id = pageID AND version = oldVersion; no row -> ErrOptimisticLock.
UpdateSchemaOk(pageID, oldVersion) ==
  db[pageID].exists /\ db[pageID].version = oldVersion

UpdateSchema(pageID, schema, oldVersion, newVersion) ==
  IF UpdateSchemaOk(pageID, oldVersion)
  THEN [db EXCEPT ![pageID] = [exists |-> TRUE, schema |-> schema, version |-> newVersion]]
  ELSE db

\* ---------------------------------------------------------------- Room
\* NewRoom + the field assignments of Hub.GetOrCreateRoom.
RoomLive(r) == roomID[r] # NoPage

\* Variants of ApplyPatchOutcome with one defect each.
\* No optimistic lock (ApplyPatch as it was before expectedVersion existed).
ApplyPatchOutcome_NoVersionCheck(doc, version, patchBytes, expectedVersion) ==
  IF ~DecodeOk(patchBytes)
  THEN [err |-> "PatchError", CurrentVersion |-> 0, ExpectedVersion |-> 0,
        reason |-> "decode", state |-> doc, version |-> version]
  ELSE LET modified == PatchApply(doc, DecodePatch(patchBytes))
       IN IF modified = Fail
          THEN [err |-> "PatchError", CurrentVersion |-> 0, ExpectedVersion |-> 0,
                reason |-> "apply", state |-> doc, version |-> version]
          ELSE [err |-> "nil", CurrentVersion |-> 0, ExpectedVersion |-> 0,
                reason |-> "", state |-> modified, version |-> version + 1]

\* r.Version++ moved in front of the patch handling.
ApplyPatchOutcome_BumpFirst(doc, version, patchBytes, expectedVersion) ==
  IF version # expectedVersion
  THEN [err |-> "VersionConflictError", CurrentVersion |-> version,
        ExpectedVersion |-> expectedVersion, reason |-> "",
        state |-> doc, version |-> version]
  ELSE IF ~DecodeOk(patchBytes)
  THEN [err |-> "PatchError", CurrentVersion |-> 0, ExpectedVersion |-> 0,
        reason |-> "decode", state |-> doc, version |-> version + 1]
  ELSE LET modified == PatchApply(doc, DecodePatch(patchBytes))
       IN IF modified = Fail
          THEN [err |-> "PatchError", CurrentVersion |-> 0, ExpectedVersion |-> 0,
                reason |-> "apply", state |-> doc, version |-> version + 1]
          ELSE [err |-> "nil", CurrentVersion |-> 0, ExpectedVersion |-> 0,
                reason |-> "", state |-> modified, version |-> version + 1]

\* The patch is decoded before the version is compared.
ApplyPatchOutcome_DecodeFirst(doc, version, patchBytes, expectedVersion) ==
  IF ~DecodeOk(patchBytes)
  THEN [err |-> "PatchError", CurrentVersion |-> 0, ExpectedVersion |-> 0,
        reason |-> "decode", state |-> doc, version |-> version]
  ELSE IF version # expectedVersion
  THEN [err |-> "VersionConflictError", CurrentVersion |-> version,
        ExpectedVersion |-> expectedVersion, reason |-> "",
        state |-> doc, version |-> version]
  ELSE LET modified == PatchApply(doc, DecodePatch(patchBytes))
       IN IF modified = Fail
          THEN [err |-> "PatchError", CurrentVersion |-> 0, ExpectedVersion |-> 0,
                reason |-> "apply", state |-> doc, version |-> version]
          ELSE [err |-> "nil", CurrentVersion |-> 0, ExpectedVersion |-> 0,
                reason |-> "", state |-> modified, version |-> version + 1]

\* The operations are applied to CurrentState in place, one by one.
RECURSIVE PatchApplyInPlace(_, _)
PatchApplyInPlace(doc, ops) ==
  IF ops = <<>> THEN doc
  ELSE LET d == ApplyOperation(doc, Head(ops))
       IN IF d = Fail THEN doc ELSE PatchApplyInPlace(d, Tail(ops))

ApplyPatchOutcome_InPlace(doc, version, patchBytes, expectedVersion) ==
  IF version # expectedVersion
  THEN [err |-> "VersionConflictError", CurrentVersion |-> version,
        ExpectedVersion |-> expectedVersion, reason |-> "",
        state |-> doc, version |-> version]
  ELSE IF ~DecodeOk(patchBytes)
  THEN [err |-> "PatchError", CurrentVersion |-> 0, ExpectedVersion |-> 0,
        reason |-> "decode", state |-> doc, version |-> version]
  ELSE LET modified == PatchApply(doc, DecodePatch(patchBytes))
       IN IF modified = Fail
          THEN [err |-> "PatchError", CurrentVersion |-> 0, ExpectedVersion |-> 0,
                reason |-> "apply",
                state |-> PatchApplyInPlace(doc, DecodePatch(patchBytes)),
                version |-> version]
          ELSE [err |-> "nil", CurrentVersion |-> 0, ExpectedVersion |-> 0,
                reason |-> "", state |-> modified, version |-> version + 1]

\* Room.ApplyPatch, the part under stateMu: what it returns and the state it
\* leaves.
ApplyPatchOutcome(doc, version, patchBytes, expectedVersion) ==
  IF version # expectedVersion
  THEN [err |-> "VersionConflictError", CurrentVersion |-> version,
        ExpectedVersion |-> expectedVersion, reason |-> "",
        state |-> doc, version |-> version]
  ELSE IF ~DecodeOk(patchBytes)
  THEN [err |-> "PatchError", CurrentVersion |-> 0, ExpectedVersion |-> 0,
        reason |-> "decode", state |-> doc, version |-> version]
  ELSE LET modified == PatchApply(doc, DecodePatch(patchBytes))
       IN IF modified = Fail
          THEN [err |-> "PatchError", CurrentVersion |-> 0, ExpectedVersion |-> 0,
                reason |-> "apply", state |-> doc, version |-> version]
          ELSE [err |-> "nil", CurrentVersion |-> 0, ExpectedVersion |-> 0,
                reason |-> "", state |-> modified, version |-> version + 1]

\* The threshold test at the end of ApplyPatch.
ThresholdReached_Never(version, persisted) == FALSE

ThresholdReached(version, persisted) == version - persisted >= FlushThreshold

FreeGoroutines(r) == {g \in 1..MaxFlushGoroutines : flush[r][g].pc = "idle"}
NextGoroutine(r) == CHOOSE g \in FreeGoroutines(r) : \A h \in FreeGoroutines(r) : g <= h

\* Variant: flushToDB without the early return.
FlushCapture_NoEarlyReturn(r, reason) ==
  [pc |-> "save", snapshot |-> CurrentState[r], currentVersion |-> Version[r],
   lastVersion |-> lastPersistedVersion[r], reason |-> reason]

\* flushToDB, first critical section (stateMu.RLock): return at once when
\* nothing is unsaved, else copy snapshot, Version and lastPersistedVersion.
FlushCapture(r, reason) ==
  IF Version[r] = lastPersistedVersion[r]
  THEN IdleFlush
  ELSE [pc |-> "save", snapshot |-> CurrentState[r], currentVersion |-> Version[r],
        lastVersion |-> lastPersistedVersion[r], reason |-> reason]

\* Variant: the last critical section assigns without comparing.
CommitVersion_NoGuard(persisted, currentVersion) == currentVersion

\* flushToDB, last critical section (stateMu.Lock): advance, never regress.
CommitVersion(persisted, currentVersion) ==
  IF currentVersion > persisted THEN currentVersion ELSE persisted

\* ----------------------------------------------------- ApplyPatch callers
PendingCalls(r) == {d \in Clients : call[d].pc = "called" /\ call[d].room = r}

\* A goroutine holding Room r (a ReadPump in handleOpPatch, a test goroutine)
\* calls r.ApplyPatch(p, e); the call waits for stateMu.
CallApplyPatch(c, r, p, e) ==
  /\ call[c].pc = "idle"
  /\ RoomLive(r)
  /\ (Version[r] - hist.initVersion[r]) + Cardinality(PendingCalls(r)) < MaxEdits
  /\ call' = [call EXCEPT ![c] =
                [IdleCall EXCEPT !.pc = "called", !.room = r, !.patch = p, !.expected = e]]
  /\ hist' = [hist EXCEPT !.issuedAt[c] = Version[r],
                          !.applicable[c] = /\ DecodeOk(p)
                                            /\ PatchApply(CurrentState[r], DecodePatch(p)) # Fail]
  /\ UNCHANGED <<stateVars, lifeVars, flush, db, stopPc,
               memberVars, connVars, hubVars>>

\* Room.ApplyPatch: one critical section under stateMu.Lock.
ApplyPatch(c) ==
  /\ call[c].pc = "called"
  /\ LET r == call[c].room
         out == ApplyPatchOutcome(CurrentState[r], Version[r], call[c].patch, call[c].expected)
         spawn == out.err = "nil" /\ ThresholdReached(out.version, lastPersistedVersion[r])
     IN /\ spawn => FreeGoroutines(r) # {}
        /\ CurrentState' = [CurrentState EXCEPT ![r] = out.state]
        /\ Version' = [Version EXCEPT ![r] = out.version]
        /\ flush' = IF spawn
                    THEN [flush EXCEPT ![r][NextGoroutine(r)] =
                            [IdleFlush EXCEPT !.pc = "start", !.reason = "threshold"]]
                    ELSE flush
        /\ call' = [call EXCEPT ![c] =
                      [@ EXCEPT !.pc = "returned", !.err = out.err,
                                !.CurrentVersion = out.CurrentVersion,
                                !.ExpectedVersion = out.ExpectedVersion,
                                !.reason = out.reason]]
        /\ hist' = IF out.err = "nil"
                   THEN [hist EXCEPT !.successes[r] = @ + 1, !.saveCalls[r] = "none",
                                     !.flushedCurrent[r] = FALSE,
                                     !.noopAfterFlush[r] = FALSE]
                   ELSE [hist EXCEPT !.failed = TRUE]
  /\ UNCHANGED <<lastPersistedVersion, lifeVars, db, stopPc,
               memberVars, connVars, hubVars>>

\* The caller has looked at the result and is ready for its next call.
CallReturns(c) ==
  /\ call[c].pc = "returned"
  /\ call' = [call EXCEPT ![c] = IdleCall]
  /\ hist' = [hist EXCEPT !.issuedAt[c] = 0, !.applicable[c] = FALSE]
  /\ UNCHANGED <<stateVars, lifeVars, flush, db, stopPc,
               memberVars, connVars, hubVars>>

\* ------------------------------------------------------------ GetSnapshot
\* What GetSnapshot hands to its caller for the Room's bytes: a fresh slice
\* filled by copy (alias = FALSE), not the slice the Room holds.
SnapshotOf_SameSlice(state) == [bytes |-> state, alias |-> TRUE]

SnapshotOf(state) == [bytes |-> state, alias |-> FALSE]

\* Room.GetSnapshot: one critical section under stateMu.RLock.
GetSnapshot(c, r) ==
  /\ call[c].pc = "idle"
  /\ RoomLive(r)
  /\ call' = [call EXCEPT ![c] =
                [IdleCall EXCEPT !.pc = "snapshot", !.room = r,
                                 !.snapshot = SnapshotOf(CurrentState[r]).bytes,
                                 !.alias = SnapshotOf(CurrentState[r]).alias,
                                 !.version = Version[r]]]
  /\ UNCHANGED <<stateVars, lifeVars, flush, db, stopPc, memberVars, connVars,
                 hubVars, hist>>

\* The bytes after the caller's `snapshot[0] = 'X'`.
Overwritten(bytes) == [bytes EXCEPT !["/components/1/name"] = "X"]

\* The caller of GetSnapshot writes into the slice it received; a slice shared
\* with the Room changes the Room's bytes as well.
CallerWrites(c) ==
  /\ call[c].pc = "snapshot"
  /\ call' = [call EXCEPT ![c] =
                [@ EXCEPT !.pc = "returned", !.snapshot = Overwritten(@)]]
  /\ CurrentState' = IF call[c].alias
                     THEN [CurrentState EXCEPT ![call[c].room] = Overwritten(@)]
                     ELSE CurrentState
  /\ UNCHANGED <<Version, lastPersistedVersion, lifeVars, flush, db, stopPc,
                 memberVars, connVars, hubVars, hist>>

\* -------------------------------------------------------------- flushToDB
\* flushToDB returns: a goroutine ends; Room.run goes back to its select, or,
\* in the deferred final flush, closes doneChan and exits.
FlushReturns(r, f) ==
  /\ flush' = [flush EXCEPT ![r][f] = IdleFlush]
  /\ IF f = LoopFlusher /\ flush[r][f].reason = "final"
     THEN /\ loopPc' = [loopPc EXCEPT ![r] = "exited"]
          /\ doneChan' = [doneChan EXCEPT ![r] = "closed"]
     ELSE IF f = LoopFlusher
     THEN /\ loopPc' = [loopPc EXCEPT ![r] = "select"]
          /\ UNCHANGED doneChan
     ELSE UNCHANGED <<loopPc, doneChan>>

\* History: a flushToDB invocation on r has run its first critical section.
NoteCapture(r, fl) ==
  hist' = [hist EXCEPT !.noopAfterFlush[r] =
                         @ \/ (fl.pc = "idle" /\ hist.flushedCurrent[r])]

\* History: SavePageState has been called once more for r since the last
\* successful edit: "none", "one" or "many" calls.
NoteSaveCall(r, h) ==
  [h EXCEPT !.saveCalls[r] = IF @ = "none" THEN "one" ELSE "many"]

\* `go r.flushToDB("阈值触发")` gets to run: first critical section.
FlushStart(r, g) ==
  /\ g \in 1..MaxFlushGoroutines
  /\ flush[r][g].pc = "start"
  /\ flush' = [flush EXCEPT ![r][g] = FlushCapture(r, "threshold")]
  /\ NoteCapture(r, FlushCapture(r, "threshold"))
  /\ UNCHANGED <<stateVars, lifeVars, db, call, stopPc,
               memberVars, connVars, hubVars>>

\* flushToDB calls pageService.SavePageState and the statement completes.
SavePageState(r, f) ==
  /\ flush[r][f].pc = "save"
  /\ LET fl == flush[r][f]
     IN /\ db' = UpdateSchema(roomID[r], fl.snapshot, fl.lastVersion, fl.currentVersion)
        /\ IF UpdateSchemaOk(roomID[r], fl.lastVersion)
           THEN /\ flush' = [flush EXCEPT ![r][f].pc = "commit"]
                /\ UNCHANGED <<loopPc, doneChan>>
           ELSE FlushReturns(r, f)
  /\ hist' = NoteSaveCall(r, hist)
  /\ UNCHANGED <<stateVars, roomID, stopping, stopChan, call, stopPc,
               memberVars, connVars, hubVars>>

\* SavePageState fails in the database (result.Error != nil): nothing written.
SavePageStateError(r, f) ==
  /\ flush[r][f].pc = "save"
  /\ FlushReturns(r, f)
  /\ hist' = NoteSaveCall(r, [hist EXCEPT !.dbFault = TRUE])
  /\ UNCHANGED <<stateVars, roomID, stopping, stopChan, db, call, stopPc,
               memberVars, connVars, hubVars>>

\* flushToDB, last critical section, then return.
FlushCommit(r, f) ==
  /\ flush[r][f].pc = "commit"
  /\ lastPersistedVersion' =
       [lastPersistedVersion EXCEPT ![r] = CommitVersion(@, flush[r][f].currentVersion)]
  /\ FlushReturns(r, f)
  /\ hist' = [hist EXCEPT !.flushedCurrent[r] =
                            @ \/ flush[r][f].currentVersion = Version[r],
                          !.staleCommit =
                            @ \/ flush[r][f].currentVersion < lastPersistedVersion[r]]
  /\ UNCHANGED <<CurrentState, Version, roomID, stopping, stopChan, db, call, stopPc,
               memberVars, connVars, hubVars>>

\* --------------------------------------------------------------- Room.run
\* case <-r.flushTicker.C: flushToDB("定时") runs inside the loop.
TimerTick(r) ==
  /\ loopPc[r] = "select"
  /\ LET fl == FlushCapture(r, "timer")
     IN /\ flush' = [flush EXCEPT ![r][LoopFlusher] = fl]
        /\ loopPc' = [loopPc EXCEPT ![r] = IF fl.pc = "save" THEN "flushing" ELSE "select"]
        /\ NoteCapture(r, fl)
  /\ UNCHANGED <<stateVars, roomID, stopping, stopChan, doneChan, db, call, stopPc,
               memberVars, connVars, hubVars>>

\* case <-r.stopChan: return; the deferred function stops the ticker, runs
\* flushToDB("销毁前") and closes doneChan.
LoopStop(r) ==
  /\ loopPc[r] = "select"
  /\ stopChan[r] = "closed"
  /\ LET fl == FlushCapture(r, "final")
     IN /\ flush' = [flush EXCEPT ![r][LoopFlusher] = fl]
        /\ IF fl.pc = "save"
           THEN /\ loopPc' = [loopPc EXCEPT ![r] = "final"]
                /\ UNCHANGED doneChan
           ELSE /\ loopPc' = [loopPc EXCEPT ![r] = "exited"]
                /\ doneChan' = [doneChan EXCEPT ![r] = "closed"]
        /\ NoteCapture(r, fl)
  /\ UNCHANGED <<stateVars, roomID, stopping, stopChan, db, call, stopPc,
               memberVars, connVars, hubVars>>

\* -------------------------------------------------------------- Room.Stop
\* countMu critical section: the first caller sets stopping, later ones only
\* wait for doneChan.
AlreadyStopping_Unchecked(r) == FALSE

AlreadyStopping(r) == stopping[r]

StopEnter(s, r, by) ==
  /\ stopPc' = [stopPc EXCEPT ![s] =
                  [pc |-> IF AlreadyStopping(r) THEN "wait" ELSE "close", room |-> r,
                   calledAt |-> Version[r], by |-> by]]
  /\ stopping' = [stopping EXCEPT ![r] = TRUE]
  /\ UNCHANGED <<stateVars, roomID, loopPc, stopChan, doneChan, flush, db, call, hist,
               memberVars, connVars, hubVars>>

\* Stop called on a Room directly.
StopBegin(s, r) ==
  /\ stopPc[s].pc = "idle"
  /\ RoomLive(r)
  /\ StopEnter(s, r, "caller")

\* close(r.stopChan)
StopClose(s) ==
  /\ stopPc[s].pc = "close"
  /\ stopChan' = [stopChan EXCEPT ![stopPc[s].room] = "closed"]
  /\ stopPc' = [stopPc EXCEPT ![s].pc =
                  IF stopChan[stopPc[s].room] = "open" THEN "wait" ELSE "panic"]
  /\ UNCHANGED <<stateVars, roomID, loopPc, stopping, doneChan, flush, db, call, hist,
               memberVars, connVars, hubVars>>

\* `<-r.doneChan` can proceed: the deferred function of run has closed it.
LoopExited_NoWait(r) == TRUE

LoopExited(r) == doneChan[r] = "closed"

\* <-r.doneChan, then Stop returns.
StopWait(s) ==
  /\ stopPc[s].pc = "wait"
  /\ LoopExited(stopPc[s].room)
  /\ stopPc' = [stopPc EXCEPT ![s].pc = "returned"]
  /\ UNCHANGED <<stateVars, lifeVars, flush, db, call, hist,
               memberVars, connVars, hubVars>>

\* The caller of Stop goes on after the call.
StopDone(s) ==
  /\ stopPc[s].pc = "returned"
  /\ stopPc[s].by = "caller"
  /\ stopPc' = [stopPc EXCEPT ![s] = IdleStop]
  /\ UNCHANGED <<stateVars, lifeVars, flush, db, call, hist,
               memberVars, connVars, hubVars>>

\* --------------------------------------------------------------- messages
\* WSMessage as the properties see it: type, sender, and from the payload the
\* version (sync, op-patch) or the error code (error).
WSMessage(type, senderID, version, code) ==
  [Type |-> type, SenderID |-> senderID, Version |-> version, Code |-> code]

SyncMessage(version) == WSMessage("sync", NoClient, version, "")
OpPatchMessage(c, version) == WSMessage("op-patch", c, version, "")
CursorMoveMessage(c) == WSMessage("cursor-move", c, 0, "")
ErrorMessage(code) == WSMessage("error", NoClient, 0, code)

RoomBroadcast(message, sender, isCritical) ==
  [Message |-> message, Sender |-> sender, IsCritical |-> isCritical]

NoBroadcast == [critical |-> FALSE, evicted |-> {}, delivered |-> {}, dropped |-> {}]

\* ------------------------------------------------- Room.run: connections
\* Room.Register meets `case client := <-r.register`: the loop attaches the
\* client and sends it the sync message; the handler then starts the pumps.
LoopRegister(r, c) ==
  /\ loopPc[r] = "select"
  /\ call[c].pc = "register"
  /\ call[c].room = r
  /\ Len(send[c]) < SendCap
  /\ clients' = [clients EXCEPT ![r] = @ \cup {c}]
  /\ clientRoom' = [clientRoom EXCEPT ![c] = r]
  /\ clientCount' = [clientCount EXCEPT ![r] = @ + 1]
  /\ send' = [send EXCEPT ![c] = Append(@, SyncMessage(Version[r]))]
  /\ call' = [call EXCEPT ![c] = IdleCall]
  /\ hist' = [hist EXCEPT !.syncVersion[c] = Version[r]]
  /\ UNCHANGED <<stateVars, lifeVars, flush, db, stopPc, broadcast, sendClosed,
                 hubVars>>

\* `case <-r.stopChan` of Register is ready.
StopSignalled_Never(r) == FALSE

StopSignalled(r) == stopChan[r] = "closed"

\* Room.Register, `case <-r.stopChan`: ErrRoomClosed, the handler closes the
\* connection.
RegisterClosed(c) ==
  /\ call[c].pc = "register"
  /\ StopSignalled(call[c].room)
  /\ call' = [call EXCEPT ![c] = [@ EXCEPT !.pc = "gone", !.err = "ErrRoomClosed"]]
  /\ UNCHANGED <<stateVars, lifeVars, flush, db, stopPc, memberVars, connVars,
                 hubVars, hist>>

\* ReadPump: ReadMessage fails (the peer left, the connection was closed); the
\* deferred function goes on to Room.Unregister.
ReadError(c) ==
  /\ call[c].pc = "idle"
  /\ clientRoom[c] # NoRoom
  /\ call' = [call EXCEPT ![c] = [IdleCall EXCEPT !.pc = "unregister"]]
  /\ UNCHANGED <<stateVars, lifeVars, flush, db, stopPc, memberVars, connVars,
                 hubVars, hist>>

\* `if _, ok := r.clients[client]; ok` of the unregister case.
Attached_Always(r, c) == TRUE

Attached(r, c) == c \in clients[r]

\* Room.Unregister meets `case client := <-r.unregister`.
LoopUnregister(r, c) ==
  /\ loopPc[r] = "select"
  /\ call[c].pc = "unregister"
  /\ clientRoom[c] = r
  /\ call' = [call EXCEPT ![c].pc = "gone"]
  /\ IF Attached(r, c)
     THEN /\ clients' = [clients EXCEPT ![r] = @ \ {c}]
          /\ sendClosed' = [sendClosed EXCEPT ![c] = TRUE]
          /\ clientCount' = [clientCount EXCEPT ![r] = @ - 1]
          /\ IF clients[r] \ {c} = {}
             THEN /\ Len(idleRoom) < IdleRoomCap
                  /\ idleRoom' = Append(idleRoom, r)
             ELSE UNCHANGED idleRoom
          /\ UNCHANGED hist
     ELSE /\ hist' = [hist EXCEPT !.strayLeave = @ \cup {c}]
          /\ UNCHANGED <<clients, sendClosed, clientCount, idleRoom>>
  /\ UNCHANGED <<stateVars, lifeVars, flush, db, stopPc, broadcast, send,
                 clientRoom, rooms, delPc, hubMu>>

\* Room.Unregister, `case <-r.stopChan`.
UnregisterClosed(c) ==
  /\ call[c].pc = "unregister"
  /\ stopChan[clientRoom[c]] = "closed"
  /\ call' = [call EXCEPT ![c].pc = "gone"]
  /\ UNCHANGED <<stateVars, lifeVars, flush, db, stopPc, memberVars, connVars,
                 hubVars, hist>>

\* WritePump takes the next message out of the mailbox and writes it.
WriterTakes(c) ==
  /\ send[c] # <<>>
  /\ send' = [send EXCEPT ![c] = Tail(@)]
  /\ UNCHANGED <<stateVars, lifeVars, flush, db, call, stopPc, memberVars,
                 sendClosed, clientRoom, hubVars, hist>>

\* ---------------------------------------------------- Client: ReadPump
\* handleOpPatch after a successful ApplyPatch: Room.Broadcast(message, c, true).
BroadcastPatch(c) ==
  /\ call[c].pc = "returned"
  /\ call[c].err = "nil"
  /\ LET r == call[c].room
     IN /\ Len(broadcast[r]) < BroadcastCap
        /\ broadcast' = [broadcast EXCEPT ![r] =
             Append(@, RoomBroadcast(OpPatchMessage(c, call[c].expected), c, TRUE))]
  /\ call' = [call EXCEPT ![c] = IdleCall]
  /\ hist' = [hist EXCEPT !.issuedAt[c] = 0, !.applicable[c] = FALSE]
  /\ UNCHANGED <<stateVars, lifeVars, flush, db, stopPc, clients, clientCount,
                 connVars, hubVars>>

\* The error code handleOpPatch reports for an ApplyPatch error.
ErrorCodeOf(err) ==
  CASE err = "VersionConflictError" -> "VERSION_CONFLICT"
    [] err = "PatchError" -> "PATCH_FAILED"
    [] OTHER -> "INTERNAL_ERROR"

\* handleOpPatch after a failed ApplyPatch: sendError puts the error message
\* into the client's own mailbox (`c.send <- data`, which waits for room).  On
\* a mailbox the Room has closed the send panics, also when it was waiting.
SendError(c) ==
  /\ call[c].pc = "returned"
  /\ call[c].err # "nil"
  /\ IF sendClosed[c]
     THEN /\ call' = [call EXCEPT ![c] = [IdleCall EXCEPT !.pc = "panic"]]
          /\ UNCHANGED send
     ELSE /\ Len(send[c]) < SendCap
          /\ send' = [send EXCEPT ![c] = Append(@, ErrorMessage(ErrorCodeOf(call[c].err)))]
          /\ call' = [call EXCEPT ![c] = IdleCall]
  /\ hist' = [hist EXCEPT !.issuedAt[c] = 0, !.applicable[c] = FALSE]
  /\ UNCHANGED <<stateVars, lifeVars, flush, db, stopPc, memberVars, sendClosed,
                 clientRoom, hubVars>>

\* A cursor-move message arrives: handleCursorMove, Room.Broadcast(message, c,
\* false).
RecvCursorMove(c) ==
  /\ call[c].pc = "idle"
  /\ clientRoom[c] # NoRoom
  /\ LET r == clientRoom[c]
     IN /\ Len(broadcast[r]) < BroadcastCap
        /\ broadcast' = [broadcast EXCEPT ![r] =
             Append(@, RoomBroadcast(CursorMoveMessage(c), c, FALSE))]
  /\ UNCHANGED <<stateVars, lifeVars, flush, db, call, stopPc, clients,
                 clientCount, connVars, hubVars, hist>>

\* ---------------------------------------------- Room.run: broadcast case
\* Variant: a full mailbox never evicts.
BroadcastTo_NeverEvict(c, msg) ==
  IF Len(send[c]) < SendCap THEN "send" ELSE "drop"

\* Variant: a full mailbox always evicts.
BroadcastTo_AlwaysEvict(c, msg) ==
  IF Len(send[c]) < SendCap THEN "send" ELSE "evict"

\* The inner select of the broadcast case for one recipient.
BroadcastTo(c, msg) ==
  IF Len(send[c]) < SendCap THEN "send"
  ELSE IF msg.IsCritical THEN "evict"
  ELSE "drop"

\* case msg := <-r.broadcast: the whole range over r.clients.
LoopBroadcast(r) ==
  /\ loopPc[r] = "select"
  /\ broadcast[r] # <<>>
  /\ LET msg == Head(broadcast[r])
         recipients == clients[r] \ {msg.Sender}
         delivered == {c \in recipients : BroadcastTo(c, msg) = "send"}
         evicted == {c \in recipients : BroadcastTo(c, msg) = "evict"}
         dropped == {c \in recipients : BroadcastTo(c, msg) = "drop"}
     IN /\ broadcast' = [broadcast EXCEPT ![r] = Tail(@)]
        /\ send' = [c \in Conns |->
                      IF c \in delivered THEN Append(send[c], msg.Message) ELSE send[c]]
        /\ clients' = [clients EXCEPT ![r] = @ \ evicted]
        /\ sendClosed' = [c \in Conns |-> sendClosed[c] \/ c \in evicted]
        /\ hist' = [hist EXCEPT !.lastBroadcast =
                      [critical |-> msg.IsCritical, evicted |-> evicted,
                       delivered |-> delivered, dropped |-> dropped],
                                !.lastPatch = [c \in Conns |->
                                  IF c \in delivered /\ msg.Message.Type = "op-patch"
                                  THEN msg.Message.Version ELSE @[c]]]
  /\ UNCHANGED <<stateVars, lifeVars, flush, db, call, stopPc, clientCount,
                 clientRoom, hubVars>>

\* ------------------------------------------------------------------- Hub
\* h.mu is free: no caller is between h.mu.Lock() and its deferred Unlock.
HubUnlocked == hubMu = NoClient

\* GetOrCreateRoom, fast path: look the page up under h.mu.RLock.
GetOrCreateRoomLookup(c, pageID) ==
  /\ call[c].pc = "connect"
  /\ HubUnlocked
  /\ call' = [call EXCEPT ![c] =
                [IdleCall EXCEPT !.pc = IF rooms[pageID] # NoRoom THEN "fastcheck" ELSE "slow",
                                 !.room = rooms[pageID], !.page = pageID]]
  /\ UNCHANGED <<stateVars, lifeVars, flush, db, stopPc, memberVars, connVars,
                 hubVars, hist>>

\* GetOrCreateRoom, fast path: room.IsStopping() reads the flag under
\* countMu.RLock; no lock is held afterwards.
GetOrCreateRoomFast(c) ==
  /\ call[c].pc = "fastcheck"
  /\ call' = [call EXCEPT ![c] =
                IF stopping[call[c].room]
                THEN [@ EXCEPT !.pc = "gone", !.room = NoRoom, !.err = "ErrRoomClosing"]
                ELSE [@ EXCEPT !.pc = "return"]]
  /\ UNCHANGED <<stateVars, lifeVars, flush, db, stopPc, memberVars, connVars,
                 hubVars, hist>>

\* GetOrCreateRoom, fast path: `return room, nil` after the flag was read.
GetOrCreateRoomReturn(c) ==
  /\ call[c].pc = "return"
  /\ call' = [call EXCEPT ![c].pc = "register"]
  /\ UNCHANGED <<stateVars, lifeVars, flush, db, stopPc, memberVars, connVars,
                 hubVars, hist>>

UnbornRooms == {r \in RoomIds : roomID[r] = NoPage}
NewRoomId == CHOOSE r \in UnbornRooms : \A q \in UnbornRooms : r <= q

\* pageRepository.GetPageState: the error of GetByPageID if the query failed,
\* ErrPageNotFound if there is no such page, else the stored schema and version.
GetPageState_NeverFails(pageID, fault) ==
  [err |-> "nil", state |-> db[pageID].schema,
   version |-> IF db[pageID].exists THEN db[pageID].version ELSE 1]

GetPageState(pageID, fault) ==
  IF fault THEN [err |-> "ErrDatabase", state |-> DefaultSchema, version |-> 0]
  ELSE IF ~db[pageID].exists
  THEN [err |-> "ErrPageNotFound", state |-> DefaultSchema, version |-> 0]
  ELSE [err |-> "nil", state |-> db[pageID].schema, version |-> db[pageID].version]

\* GetOrCreateRoom, slow path: the second lookup, under h.mu.Lock.
SlowPathFinds_NoDoubleCheck(pageID) == NoRoom

SlowPathFinds(pageID) == rooms[pageID]

\* GetOrCreateRoom, slow path: h.mu.Lock() with the Unlock deferred to the
\* return, then the double check.  A Room found ends the call; otherwise the
\* call goes on to GetPageState with the lock held.
GetOrCreateRoomSlow(c) ==
  /\ call[c].pc = "slow"
  /\ HubUnlocked
  /\ LET pageID == call[c].page
     IN IF SlowPathFinds(pageID) # NoRoom
        THEN /\ call' = [call EXCEPT ![c] =
                          IF stopping[SlowPathFinds(pageID)]
                          THEN [@ EXCEPT !.pc = "gone", !.err = "ErrRoomClosing"]
                          ELSE [@ EXCEPT !.pc = "register", !.room = SlowPathFinds(pageID)]]
             /\ hist' = [hist EXCEPT !.recheck = TRUE]
             /\ UNCHANGED hubMu
        ELSE /\ call' = [call EXCEPT ![c].pc = "loading"]
             /\ hubMu' = c
             /\ UNCHANGED hist
  /\ UNCHANGED <<stateVars, lifeVars, flush, db, stopPc, memberVars, connVars,
                 rooms, idleRoom, delPc>>

\* GetOrCreateRoom, slow path: GetPageState returns; on an error the call
\* ends, else NewRoom, Version and lastPersistedVersion from the stored page
\* and the directory entry; the deferred Unlock runs at the return.
GetOrCreateRoomLoad(c) ==
  /\ call[c].pc = "loading"
  /\ hubMu = c
  /\ hubMu' = NoClient
  /\ LET pageID == call[c].page
     IN \E fault \in BOOLEAN :
          LET got == GetPageState(pageID, fault)
          IN IF got.err # "nil"
             THEN /\ call' = [call EXCEPT ![c] =
                               [@ EXCEPT !.pc = "gone", !.err = got.err]]
                  /\ hist' = [hist EXCEPT !.loads[pageID] =
                               IF @ = "none" THEN "one" ELSE "many"]
                  /\ UNCHANGED <<stateVars, roomID, loopPc, rooms>>
             ELSE /\ UnbornRooms # {}
                  /\ LET r == NewRoomId
                     IN /\ roomID' = [roomID EXCEPT ![r] = pageID]
                        /\ CurrentState' = [CurrentState EXCEPT ![r] = got.state]
                        /\ Version' = [Version EXCEPT ![r] = got.version]
                        /\ lastPersistedVersion' =
                             [lastPersistedVersion EXCEPT ![r] = got.version]
                        /\ loopPc' = [loopPc EXCEPT ![r] = "select"]
                        /\ rooms' = [rooms EXCEPT ![pageID] = r]
                        /\ hist' = [hist EXCEPT !.initVersion[r] = got.version,
                                                !.loads[pageID] =
                                     IF @ = "none" THEN "one" ELSE "many"]
                        /\ call' = [call EXCEPT ![c] =
                                     [@ EXCEPT !.pc = "register", !.room = r]]
  /\ UNCHANGED <<stopping, stopChan, doneChan, flush, db, stopPc, memberVars,
                 connVars, idleRoom, delPc>>

GetOrCreateRoomNext(c) ==
  \/ \E p \in PageIds : GetOrCreateRoomLookup(c, p)
  \/ GetOrCreateRoomFast(c)
  \/ GetOrCreateRoomReturn(c)
  \/ GetOrCreateRoomSlow(c)
  \/ GetOrCreateRoomLoad(c)

\* ------------------------------------------------------ PageUseCase.GetPage
\* Hub.GetRoom: the directory entry under h.mu.RLock, stopping or not; nil
\* when the page has none.
GetRoom_SkipStopping(pageID) ==
  IF rooms[pageID] # NoRoom /\ stopping[rooms[pageID]] THEN NoRoom ELSE rooms[pageID]

GetRoom(pageID) == rooms[pageID]

\* pageRepository.GetByPageID: the stored page; (nil, nil) when there is no
\* row; the database error otherwise.
GetByPageID(pageID, fault) ==
  IF fault THEN [err |-> "ErrDatabase", found |-> FALSE, schema |-> DefaultSchema, version |-> 0]
  ELSE IF ~db[pageID].exists
  THEN [err |-> "nil", found |-> FALSE, schema |-> DefaultSchema, version |-> 0]
  ELSE [err |-> "nil", found |-> TRUE, schema |-> db[pageID].schema,
        version |-> db[pageID].version]

\* GetPage: `room := uc.hub.GetRoom(pageID)`.
GetPageLookup(c, pageID) ==
  /\ call[c].pc = "idle"
  /\ HubUnlocked
  /\ call' = [call EXCEPT ![c] =
                [IdleCall EXCEPT !.pc = IF GetRoom(pageID) # NoRoom THEN "hot" ELSE "cold",
                                 !.room = GetRoom(pageID), !.page = pageID]]
  /\ UNCHANGED <<stateVars, lifeVars, flush, db, stopPc, memberVars, connVars,
                 hubVars, hist>>

\* GetPage, room != nil: room.GetSnapshot() fills the page that is returned.
GetPageHot(c) ==
  /\ call[c].pc = "hot"
  /\ LET r == call[c].room
     IN call' = [call EXCEPT ![c] =
                   [@ EXCEPT !.pc = "page", !.err = "nil",
                             !.snapshot = SnapshotOf(CurrentState[r]).bytes,
                             !.version = Version[r]]]
  /\ UNCHANGED <<stateVars, lifeVars, flush, db, stopPc, memberVars, connVars,
                 hubVars, hist>>

\* GetPage, room == nil: `return uc.repo.GetByPageID(pageID)`.
GetPageCold(c) ==
  /\ call[c].pc = "cold"
  /\ \E fault \in BOOLEAN :
       LET got == GetByPageID(call[c].page, fault)
       IN call' = [call EXCEPT ![c] =
                     [@ EXCEPT !.pc = "page", !.err = got.err,
                               !.snapshot = got.schema, !.version = got.version]]
  /\ hist' = [hist EXCEPT !.repoReads = IF @ = "none" THEN "one" ELSE "many"]
  /\ UNCHANGED <<stateVars, lifeVars, flush, db, stopPc, memberVars, connVars,
                 hubVars>>

\* The HTTP handler has answered.
GetPageReturn(c) ==
  /\ call[c].pc = "page"
  /\ call' = [call EXCEPT ![c] = IdleCall]
  /\ UNCHANGED <<stateVars, lifeVars, flush, db, stopPc, memberVars, connVars,
                 hubVars, hist>>

GetPageNext(c) ==
  \/ \E p \in PageIds : GetPageLookup(c, p)
  \/ GetPageHot(c)
  \/ GetPageCold(c)
  \/ GetPageReturn(c)

\* -------------------------------------------- Hub.Run and handleIdleRoom
\* Hub.Run receives a Room from idleRoom and starts `go h.handleIdleRoom(room)`.
HubRun(s) ==
  /\ stopPc[s].pc = "idle"
  /\ idleRoom # <<>>
  /\ stopPc' = [stopPc EXCEPT ![s] =
                  [pc |-> "check", room |-> Head(idleRoom), calledAt |-> 0, by |-> "hub"]]
  /\ idleRoom' = Tail(idleRoom)
  /\ UNCHANGED <<stateVars, lifeVars, flush, db, call, memberVars, connVars,
                 rooms, delPc, hist, hubMu>>

\* handleIdleRoom: the double check, room.ClientCount() > 0 returns.
HandleIdleRoomCheck(s) ==
  /\ stopPc[s].pc = "check"
  /\ stopPc' = [stopPc EXCEPT ![s] =
                  IF clientCount[stopPc[s].room] > 0 THEN IdleStop
                  ELSE [@ EXCEPT !.pc = "stop"]]
  /\ UNCHANGED <<stateVars, lifeVars, flush, db, call, memberVars, connVars,
                 hubVars, hist>>

\* handleIdleRoom: room.Stop(), its countMu critical section.
HandleIdleRoomStop(s) ==
  /\ stopPc[s].pc = "stop"
  /\ StopEnter(s, stopPc[s].room, "hub")

\* The directory entry handleIdleRoom leaves for the page of `room`.
RemoveIfSame_Always(pageID, room) == NoRoom

RemoveIfSame(pageID, room) ==
  IF rooms[pageID] = room THEN NoRoom ELSE rooms[pageID]

\* handleIdleRoom after Stop returned: under h.mu.Lock the entry is deleted if
\* it still holds this Room.
HandleIdleRoomRemove(s) ==
  /\ stopPc[s].pc = "returned"
  /\ stopPc[s].by = "hub"
  /\ HubUnlocked
  /\ LET room == stopPc[s].room
     IN rooms' = [rooms EXCEPT ![roomID[room]] = RemoveIfSame(roomID[room], room)]
  /\ stopPc' = [stopPc EXCEPT ![s] = IdleStop]
  /\ hist' = [hist EXCEPT !.idleDone =
                 LET found == rooms[roomID[stopPc[s].room]]
                 IN IF found = stopPc[s].room THEN "same"
                    ELSE IF found = NoRoom THEN "absent" ELSE "replaced"]
  /\ UNCHANGED <<stateVars, lifeVars, flush, db, call, memberVars, connVars,
                 idleRoom, delPc, hubMu>>

HandleIdleRoomNext(s) ==
  \/ HubRun(s)
  \/ HandleIdleRoomCheck(s)
  \/ HandleIdleRoomStop(s)
  \/ StopClose(s)
  \/ StopWait(s)
  \/ HandleIdleRoomRemove(s)

\* ------------------------------------------------- PageUseCase.DeletePage
\* GetByPageID finds the page and the operator is its creator; then
\* Hub.CloseRoom, first critical section: remove the Room from the directory.
DeletePageBegin(pageID) ==
  /\ delPc.pc = "idle"
  /\ HubUnlocked
  /\ db[pageID].exists
  /\ delPc' = [pc |-> IF rooms[pageID] # NoRoom THEN "stop" ELSE "delete",
               page |-> pageID, room |-> rooms[pageID]]
  /\ rooms' = [rooms EXCEPT ![pageID] = NoRoom]
  /\ UNCHANGED <<stateVars, lifeVars, flush, db, call, stopPc, memberVars,
                 connVars, idleRoom, hist, hubMu>>

\* StopWithReason, countMu critical section.
StopWithReasonBegin ==
  /\ delPc.pc = "stop"
  /\ delPc' = [delPc EXCEPT !.pc = IF AlreadyStopping(delPc.room) THEN "wait" ELSE "notify"]
  /\ stopping' = [stopping EXCEPT ![delPc.room] = TRUE]
  /\ UNCHANGED <<stateVars, roomID, loopPc, stopChan, doneChan, flush, db, call,
                 stopPc, memberVars, connVars, rooms, idleRoom, hist, hubMu>>

\* StopWithReason: broadcastError(ErrPageDeleted) sends on r.broadcast.
BroadcastError ==
  /\ delPc.pc = "notify"
  /\ Len(broadcast[delPc.room]) < BroadcastCap
  /\ broadcast' = [broadcast EXCEPT ![delPc.room] =
       Append(@, RoomBroadcast(ErrorMessage("PAGE_DELETED"), NoClient, TRUE))]
  /\ delPc' = [delPc EXCEPT !.pc = "close"]
  /\ UNCHANGED <<stateVars, lifeVars, flush, db, call, stopPc, clients,
                 clientCount, connVars, rooms, idleRoom, hist, hubMu>>

\* StopWithReason: the sleep is over, close(r.stopChan).
StopWithReasonClose ==
  /\ delPc.pc = "close"
  /\ stopChan' = [stopChan EXCEPT ![delPc.room] = "closed"]
  /\ delPc' = [delPc EXCEPT !.pc =
                 IF stopChan[delPc.room] = "open" THEN "wait" ELSE "panic"]
  /\ UNCHANGED <<stateVars, roomID, loopPc, stopping, doneChan, flush, db, call,
                 stopPc, memberVars, connVars, rooms, idleRoom, hist, hubMu>>

\* StopWithReason: <-r.doneChan; CloseRoom returns.
StopWithReasonWait ==
  /\ delPc.pc = "wait"
  /\ LoopExited(delPc.room)
  /\ delPc' = [delPc EXCEPT !.pc = "delete"]
  /\ UNCHANGED <<stateVars, lifeVars, flush, db, call, stopPc, memberVars,
                 connVars, rooms, idleRoom, hist, hubMu>>

\* pageRepository.Delete; DeletePage returns.
RepoDelete ==
  /\ delPc.pc = "delete"
  /\ db' = [db EXCEPT ![delPc.page] =
              [exists |-> FALSE, schema |-> DefaultSchema, version |-> 0]]
  /\ delPc' = [delPc EXCEPT !.pc = "done"]
  /\ UNCHANGED <<stateVars, lifeVars, flush, call, stopPc, memberVars, connVars,
                 rooms, idleRoom, hist, hubMu>>

\* PageUseCase.CreatePage: repo.Create inserts version 1 with the default
\* schema; an existing page makes it fail without a change.
CreatePage(pageID) ==
  /\ ~db[pageID].exists
  /\ db' = [db EXCEPT ![pageID] =
              [exists |-> TRUE, schema |-> DefaultSchema, version |-> 1]]
  /\ UNCHANGED <<stateVars, lifeVars, flush, call, stopPc, memberVars, connVars,
                 hubVars, hist>>

\* --------------------------------------------------------- specifications
StartVersions == {1, FlushThreshold}

\* The Hub with its directory empty (live = FALSE, as NewHub leaves it) or
\* holding Room 1 of page1; the page is stored at version 1 or not stored.
InitState(live, stored, v, calls, attached) ==
  /\ roomID = [r \in RoomIds |-> IF live /\ r = 1 THEN "page1" ELSE NoPage]
  /\ CurrentState = [r \in RoomIds |-> DefaultSchema]
  /\ Version = [r \in RoomIds |-> IF live /\ r = 1 THEN v ELSE 0]
  /\ lastPersistedVersion = [r \in RoomIds |-> IF live /\ r = 1 THEN 1 ELSE 0]
  /\ loopPc = [r \in RoomIds |-> IF live /\ r = 1 THEN "select" ELSE "unborn"]
  /\ stopping = [r \in RoomIds |-> FALSE]
  /\ stopChan = [r \in RoomIds |-> "open"]
  /\ doneChan = [r \in RoomIds |-> "open"]
  /\ flush = [r \in RoomIds |-> [f \in Flushers |-> IdleFlush]]
  /\ db = [p \in PageIds |-> [exists |-> stored, schema |-> DefaultSchema,
                           version |-> IF stored THEN 1 ELSE 0]]
  /\ call = [c \in Conns |-> IF c \in Clients THEN calls[c] ELSE IdleCall]
  /\ stopPc = [s \in Stoppers |-> IdleStop]
  /\ clients = [r \in RoomIds |-> IF live /\ r = 1 THEN attached ELSE {}]
  /\ clientCount = [r \in RoomIds |-> IF live /\ r = 1 THEN Cardinality(attached) ELSE 0]
  /\ broadcast = [r \in RoomIds |-> <<>>]
  /\ send = [c \in Conns |-> <<>>]
  /\ sendClosed = [c \in Conns |-> FALSE]
  /\ clientRoom = [c \in Conns |-> IF c \in attached THEN 1 ELSE NoRoom]
  /\ rooms = [p \in PageIds |-> IF live THEN 1 ELSE NoRoom]
  /\ idleRoom = <<>>
  /\ delPc = IdleDelete
  /\ hubMu = NoClient
  /\ hist = [initVersion |-> [r \in RoomIds |-> IF live /\ r = 1 THEN v ELSE 0],
             successes |-> [r \in RoomIds |-> 0],
             issuedAt |-> [c \in Clients |-> 0],
             applicable |-> [c \in Clients |-> FALSE],
             dbFault |-> FALSE,
             failed |-> FALSE,
             saveCalls |-> [r \in RoomIds |-> "none"],
             flushedCurrent |-> [r \in RoomIds |-> FALSE],
             noopAfterFlush |-> [r \in RoomIds |-> FALSE],
             staleCommit |-> FALSE,
             lastBroadcast |-> NoBroadcast,
             lastPatch |-> [c \in Conns |-> 0],
             syncVersion |-> [c \in Conns |-> 0],
             loads |-> [p \in PageIds |-> "none"],
             recheck |-> FALSE,
             idleDone |-> "no",
             strayLeave |-> {},
             repoReads |-> "none"]

\* Room 1 was created from the stored page (version 1) and has since accepted
\* v - 1 edits that no flush has saved yet.
InitWith(v, calls, attached) == InitState(TRUE, TRUE, v, calls, attached)

InitRoom(v) == InitWith(v, [c \in Clients |-> IdleCall], {})

Init == \E v \in StartVersions : InitRoom(v)

ExpectedInputs(r) == {Version[r] - 1, Version[r], Version[r] + 1}

\* The steps of flushToDB, of the loop's timer and of Stop.
FlushNext ==
  \/ \E r \in RoomIds, g \in 1..MaxFlushGoroutines : FlushStart(r, g)
  \/ \E r \in RoomIds, f \in Flushers : SavePageState(r, f)
  \/ \E r \in RoomIds, f \in Flushers : FlushCommit(r, f)
  \/ \E r \in RoomIds : TimerTick(r)

StopNext ==
  \/ \E r \in RoomIds : LoopStop(r)
  \/ \E r \in RoomIds : StopBegin("idle1", r)
  \/ StopClose("idle1")
  \/ StopWait("idle1")

\* Spec: a Room's persistence under edits: an editor whose patches apply or
\* fail, threshold and timer flushes, database errors, and Stop.
EditPatches == {ReplaceName, ReplaceMissing}

Next ==
  \/ \E r \in RoomIds, p \in EditPatches :
       \E e \in {Version[r] - 1, Version[r]} : CallApplyPatch(1, r, p, e)
  \/ ApplyPatch(1)
  \/ CallReturns(1)
  \/ FlushNext
  \/ \E r \in RoomIds, f \in Flushers : SavePageStateError(r, f)
  \/ StopNext

Spec == Init /\ [][Next]_vars

\* SpecRace: concurrent callers of one Room (TestRoom_ApplyPatch_Concurrent),
\* each presenting the version it believes current.
RacePatches == {ReplaceName, AddDesc, ReplaceMissing}

NextRace ==
  \/ \E c \in Clients, r \in RoomIds, p \in RacePatches :
       \E e \in ExpectedInputs(r) : CallApplyPatch(c, r, p, e)
  \/ \E c \in Clients : ApplyPatch(c)
  \/ \E c \in Clients : CallReturns(c)

SpecRace == InitRoom(1) /\ [][NextRace]_vars

\* SpecApply: one caller, every patch body of PatchInputs, any of the three
\* version relations.
NextApply ==
  \/ \E r \in RoomIds, p \in PatchInputs :
       \E e \in ExpectedInputs(r) : CallApplyPatch(1, r, p, e)
  \/ ApplyPatch(1)
  \/ CallReturns(1)
  \/ FlushNext

SpecApply == Init /\ [][NextApply]_vars

\* SpecHub: the directory under DeletePage.  Client 1 edits Room 1, which is
\* one edit short of the flush threshold; client 2 is opening a connection
\* for the same page; the page is deleted and created again.
InitHub ==
  InitWith(FlushThreshold,
           [c \in Clients |-> IF c = 2 THEN [IdleCall EXCEPT !.pc = "connect"] ELSE IdleCall],
           {})

DeletePageNext ==
  \/ \E p \in PageIds : DeletePageBegin(p)
  \/ StopWithReasonBegin
  \/ BroadcastError
  \/ StopWithReasonClose
  \/ StopWithReasonWait
  \/ RepoDelete

NextHub ==
  \/ CallApplyPatch(1, 1, ReplaceName, Version[1])
  \/ ApplyPatch(1)
  \/ CallReturns(1)
  \/ FlushNext
  \/ \E r \in RoomIds : LoopBroadcast(r)
  \/ \E r \in RoomIds : LoopStop(r)
  \/ DeletePageNext
  \/ \E p \in PageIds : CreatePage(p)
  \/ \E p \in PageIds : GetOrCreateRoomLookup(2, p)
  \/ GetOrCreateRoomFast(2)
  \/ GetOrCreateRoomReturn(2)
  \/ GetOrCreateRoomSlow(2)
  \/ GetOrCreateRoomLoad(2)

SpecHub == InitHub /\ [][NextHub]_vars

\* SpecBroadcast: connections of one Room.  Every client has obtained Room 1
\* and is about to register; client 1 sends patches and cursor moves; the
\* writers are as slow as they like.
InitBroadcast ==
  InitWith(1, [c \in Clients |-> [IdleCall EXCEPT !.pc = "register", !.room = 1]], {})

BroadcastPatches == {ReplaceName}

ConnectionNext ==
  \/ \E r \in RoomIds, c \in Clients : LoopRegister(r, c)
  \/ \E c \in Clients : WriterTakes(c)
  \/ \E r \in RoomIds : LoopBroadcast(r)

PatchNext ==
  \/ \E p \in BroadcastPatches :
       /\ clientRoom[1] # NoRoom
       /\ CallApplyPatch(1, clientRoom[1], p, Version[clientRoom[1]])
  \/ ApplyPatch(1)
  \/ BroadcastPatch(1)

NextBroadcast ==
  \/ ConnectionNext
  \/ PatchNext
  \/ RecvCursorMove(1)

SpecBroadcast == InitBroadcast /\ [][NextBroadcast]_vars

\* SpecEvict: the critical broadcasts of one Room: the patches of client 1 and
\* the PAGE_DELETED message of DeletePage, with the Room's shutdown.
NextEvict ==
  \/ ConnectionNext
  \/ PatchNext
  \/ DeletePageNext
  \/ \E r \in RoomIds : LoopStop(r)
  \/ \E r \in RoomIds, f \in Flushers : SavePageState(r, f)
  \/ \E r \in RoomIds, f \in Flushers : FlushCommit(r, f)

SpecEvict == InitBroadcast /\ [][NextEvict]_vars

\* SpecOrder: every client is attached to Room 1 and edits it, presenting the
\* version it sees; the observer is attached and only listens.
InitOrder == InitWith(1, [c \in Clients |-> IdleCall], Conns)

NextOrder ==
  \/ \E c \in Clients, p \in BroadcastPatches :
       /\ clientRoom[c] # NoRoom
       /\ ~sendClosed[c]
       /\ CallApplyPatch(c, clientRoom[c], p, Version[clientRoom[c]])
  \/ \E c \in Clients : ApplyPatch(c)
  \/ \E c \in Clients : BroadcastPatch(c)
  \/ \E c \in Clients : SendError(c)
  \/ \E c \in Conns : WriterTakes(c)
  \/ \E r \in RoomIds : LoopBroadcast(r)

SpecOrder == InitOrder /\ [][NextOrder]_vars

\* SpecReject: every client is attached to Room 1; client 1 edits it, with
\* patch bodies that do not decode and patches that decode and cannot be
\* applied among its edits.
RejectPatches == {ReplaceName, RemoveDesc, MissingOp, NotJSON, NotArray}

NextReject ==
  \/ \E p \in RejectPatches :
       /\ clientRoom[1] # NoRoom
       /\ ~sendClosed[1]
       /\ CallApplyPatch(1, clientRoom[1], p, Version[clientRoom[1]])
  \/ ApplyPatch(1)
  \/ BroadcastPatch(1)
  \/ SendError(1)
  \/ \E c \in Conns : WriterTakes(c)
  \/ \E r \in RoomIds : LoopBroadcast(r)

SpecReject == InitOrder /\ [][NextReject]_vars

\* SpecReopen: client 1 edits page1 in Room 1 and leaves; the idle path stops
\* the Room, whose final flush saves the edits or fails; client 2 opens the
\* page at any moment.
NextReopen ==
  \/ /\ clientRoom[1] # NoRoom
     /\ CallApplyPatch(1, clientRoom[1], ReplaceName, Version[clientRoom[1]])
  \/ ApplyPatch(1)
  \/ CallReturns(1)
  \/ ReadError(1)
  \/ \E r \in RoomIds : LoopUnregister(r, 1)
  \/ HandleIdleRoomNext("idle1")
  \/ \E r \in RoomIds : LoopStop(r)
  \/ \E r \in RoomIds : SavePageState(r, LoopFlusher)
  \/ \E r \in RoomIds : SavePageStateError(r, LoopFlusher)
  \/ \E r \in RoomIds : FlushCommit(r, LoopFlusher)
  \/ GetOrCreateRoomNext(2)
  \/ \E r \in RoomIds : LoopRegister(r, 2)
  \/ RegisterClosed(2)
  \/ WriterTakes(2)

SpecReopen ==
  /\ InitWith(1, [c \in Clients |-> IF c = 1 THEN IdleCall
                                     ELSE [IdleCall EXCEPT !.pc = "connect"]], {1})
  /\ [][NextReopen]_vars

\* SpecStop: Room 1 holds an edit that is not saved; Stop is called on it from
\* two goroutines, again and again, while DeletePage closes it with
\* StopWithReason; the final flush saves or fails.
NextStop ==
  \/ \E s \in Stoppers, r \in RoomIds : StopBegin(s, r)
  \/ \E s \in Stoppers : StopClose(s)
  \/ \E s \in Stoppers : StopWait(s)
  \/ \E s \in Stoppers : StopDone(s)
  \/ DeletePageNext
  \/ \E r \in RoomIds : LoopBroadcast(r)
  \/ \E r \in RoomIds : LoopStop(r)
  \/ \E r \in RoomIds : SavePageState(r, LoopFlusher)
  \/ \E r \in RoomIds : SavePageStateError(r, LoopFlusher)
  \/ \E r \in RoomIds : FlushCommit(r, LoopFlusher)
  \/ \E r \in RoomIds, c \in Clients : LoopRegister(r, c)
  \/ \E c \in Clients : RegisterClosed(c)
  \/ \E c \in Clients : WriterTakes(c)

SpecStop ==
  /\ InitWith(2, [c \in Clients |-> [IdleCall EXCEPT !.pc = "register", !.room = 1]], {})
  /\ [][NextStop]_vars

\* SpecRead: page1 is edited in Room 1 by client 1, which then leaves, so
\* that the idle path stops the Room; meanwhile the page is read over HTTP by
\* the observer, deleted, created again and opened by client 2.
NextRead ==
  \/ /\ clientRoom[1] # NoRoom
     /\ CallApplyPatch(1, clientRoom[1], ReplaceName, Version[clientRoom[1]])
  \/ ApplyPatch(1)
  \/ CallReturns(1)
  \/ ReadError(1)
  \/ \E r \in RoomIds : LoopUnregister(r, 1)
  \/ UnregisterClosed(1)
  \/ HandleIdleRoomNext("idle1")
  \/ GetPageNext(Observer)
  \/ DeletePageNext
  \/ \E r \in RoomIds : LoopBroadcast(r)
  \/ \E r \in RoomIds : LoopStop(r)
  \/ \E r \in RoomIds : SavePageState(r, LoopFlusher)
  \/ \E r \in RoomIds : FlushCommit(r, LoopFlusher)
  \/ \E p \in PageIds : CreatePage(p)
  \/ \E p \in PageIds : GetOrCreateRoomLookup(2, p)
  \/ GetOrCreateRoomFast(2)
  \/ GetOrCreateRoomReturn(2)
  \/ GetOrCreateRoomSlow(2)
  \/ GetOrCreateRoomLoad(2)

SpecRead ==
  /\ InitWith(1, [c \in Clients |-> IF c = 2 THEN [IdleCall EXCEPT !.pc = "connect"]
                                     ELSE IdleCall], {1})
  /\ [][NextRead]_vars

\* SpecConnect: the Hub as NewHub leaves it; every client opens a connection
\* for page1 at the same time, which is stored or not, and then registers.
InitConnect ==
  \E stored \in BOOLEAN :
    InitState(FALSE, stored, 0, [c \in Clients |-> [IdleCall EXCEPT !.pc = "connect"]], {})

NextConnect ==
  \/ \E c \in Clients : GetOrCreateRoomNext(c)
  \/ \E r \in RoomIds, c \in Clients : LoopRegister(r, c)
  \/ \E c \in Clients : WriterTakes(c)
  \/ \E p \in PageIds : CreatePage(p)
  \/ \E c \in Clients : ReadError(c)
  \/ \E r \in RoomIds, c \in Clients : LoopUnregister(r, c)

SpecConnect == InitConnect /\ [][NextConnect]_vars

\* SpecIdle: the idle path.  Client 1 is attached to Room 1 and leaves; the
\* Hub handles the idle notification while client 2 opens a connection for
\* the same page and registers.
InitIdle ==
  InitWith(1, [c \in Clients |-> IF c = 1 THEN IdleCall
                                  ELSE [IdleCall EXCEPT !.pc = "connect"]],
           {1})

NextIdle ==
  \/ \E c \in Clients : ReadError(c)
  \/ \E r \in RoomIds, c \in Clients : LoopUnregister(r, c)
  \/ \E c \in Clients : UnregisterClosed(c)
  \/ \E s \in Stoppers : HandleIdleRoomNext(s)
  \/ \E r \in RoomIds : LoopStop(r)
  \/ \E c \in Clients \ {1} : GetOrCreateRoomNext(c)
  \/ \E r \in RoomIds, c \in Clients : LoopRegister(r, c)
  \/ \E c \in Clients : RegisterClosed(c)
  \/ \E c \in Clients : WriterTakes(c)
  \/ DeletePageNext
  \/ \E r \in RoomIds : LoopBroadcast(r)

SpecIdle == InitIdle /\ [][NextIdle]_vars

\* SpecRegister: connections arrive at and leave a Room that the idle path
\* stops.  Every client holds Room 1 and is about to register; a registered
\* client may leave; the Hub handles the idle notifications.  The loop, the
\* Hub and the selects of Register and Unregister are scheduled fairly; a
\* client's own steps (reading, writing, leaving) are not.
NextRegister ==
  \/ \E r \in RoomIds, c \in Clients : LoopRegister(r, c)
  \/ \E c \in Clients : RegisterClosed(c)
  \/ \E c \in Clients : WriterTakes(c)
  \/ \E c \in Clients : ReadError(c)
  \/ \E r \in RoomIds, c \in Clients : LoopUnregister(r, c)
  \/ \E c \in Clients : UnregisterClosed(c)
  \/ HandleIdleRoomNext("idle1")
  \/ \E r \in RoomIds : LoopStop(r)

FairRegister ==
  /\ \A c \in Clients :
       WF_vars((\E r \in RoomIds : LoopRegister(r, c)) \/ RegisterClosed(c))
  /\ \A c \in Clients :
       WF_vars((\E r \in RoomIds : LoopUnregister(r, c)) \/ UnregisterClosed(c))
  /\ \A r \in RoomIds : WF_vars(LoopStop(r))
  /\ WF_vars(HandleIdleRoomNext("idle1"))

SpecRegister == InitBroadcast /\ [][NextRegister]_vars /\ FairRegister

\* SpecTeardown: SpecRegister with an editor: client 1 sends patches, whose
\* broadcasts evict a recipient with a full mailbox, and the flushes run.
NextTeardown ==
  \/ NextRegister
  \/ PatchNext
  \/ \E r \in RoomIds : LoopBroadcast(r)
  \/ \E r \in RoomIds, f \in Flushers : SavePageState(r, f)
  \/ \E r \in RoomIds, f \in Flushers : FlushCommit(r, f)

FairTeardown ==
  /\ FairRegister
  /\ \A r \in RoomIds : WF_vars(LoopBroadcast(r))
  /\ \A r \in RoomIds, f \in Flushers : WF_vars(SavePageState(r, f))
  /\ \A r \in RoomIds, f \in Flushers : WF_vars(FlushCommit(r, f))

SpecTeardown == InitBroadcast /\ [][NextTeardown]_vars /\ FairTeardown

\* SpecSnapshot: readers and writers of one Room's state.  Every client
\* either edits the Room, presenting the version it sees, or takes a snapshot
\* and writes into the bytes it got.
SnapshotPatches == {ReplaceName, RestoreName}

NextSnapshot ==
  \/ \E c \in Clients, p \in SnapshotPatches : CallApplyPatch(c, 1, p, Version[1])
  \/ \E c \in Clients : ApplyPatch(c)
  \/ \E c \in Clients : CallReturns(c)
  \/ \E c \in Clients : GetSnapshot(c, 1)
  \/ \E c \in Clients : CallerWrites(c)

SpecSnapshot == InitRoom(1) /\ [][NextSnapshot]_vars

\* SpecFlush: Spec without Stop, with the flush goroutines, the loop's timer
\* flush and the database scheduled fairly (a started goroutine runs, a save
\* returns); the editor's steps are not.
NextFlush ==
  \/ \E r \in RoomIds, p \in EditPatches :
       \E e \in {Version[r] - 1, Version[r]} : CallApplyPatch(1, r, p, e)
  \/ ApplyPatch(1)
  \/ CallReturns(1)
  \/ FlushNext
  \/ \E r \in RoomIds, f \in Flushers : SavePageStateError(r, f)

FairFlush ==
  /\ \A r \in RoomIds, g \in 1..MaxFlushGoroutines : WF_vars(FlushStart(r, g))
  /\ \A r \in RoomIds, f \in Flushers :
       WF_vars(SavePageState(r, f) \/ SavePageStateError(r, f))
  /\ \A r \in RoomIds, f \in Flushers : WF_vars(FlushCommit(r, f))

SpecFlush == Init /\ [][NextFlush]_vars /\ FairFlush

\* SpecRetry: the steps of Spec with the scheduling the code gives them: a
\* started flush goroutine runs, the database answers every call, the ticker
\* keeps firing while the loop waits in its select, and the loop takes the
\* stop case once stopChan is closed.  Whether Stop is called, and whether a
\* save fails, is left open.
FairRetry ==
  /\ FairFlush
  /\ \A r \in RoomIds : WF_vars(TimerTick(r))
  /\ \A r \in RoomIds : WF_vars(LoopStop(r))

SpecRetry == Init /\ [][Next]_vars /\ FairRetry

TypeOK ==
  /\ \A r \in RoomIds : Version[r] \in Nat /\ lastPersistedVersion[r] \in Nat
  /\ \A r \in RoomIds : CurrentState[r] \in Doc

\* ================================================================ claims
Returned(c) == call[c].pc = "returned"
Succeeded(c) == Returned(c) /\ call[c].err = "nil"

\* Every caller's current call was issued while the Room was at version V,
\* presented V, carried a patch applicable at V, and has returned.
RaceOn(V) ==
  \A c \in Clients :
    /\ Returned(c)
    /\ call[c].expected = V
    /\ hist.issuedAt[c] = V
    /\ hist.applicable[c]

\* C1: optimistic-lock exclusivity.  No two ApplyPatch calls presenting the
\* same expectedVersion both succeed; and when every caller presents V with an
\* applicable patch while the Room is at V, exactly one call succeeds and each
\* other returns VersionConflictError{CurrentVersion = V+1, ExpectedVersion = V}.
Thm_C1_OptimisticLockExclusivity ==
  /\ \A c, d \in Clients :
       (c # d /\ Succeeded(c) /\ Succeeded(d) /\ call[c].room = call[d].room)
         => call[c].expected # call[d].expected
  /\ LET V == call[1].expected
     IN RaceOn(V) =>
          \E w \in Clients :
            /\ call[w].err = "nil"
            /\ \A c \in Clients \ {w} :
                 /\ call[c].err = "VersionConflictError"
                 /\ call[c].CurrentVersion = V + 1
                 /\ call[c].ExpectedVersion = V

Wit_C1_RaceDecided == NumClients >= 2 /\ RaceOn(call[1].expected)

\* A step in which caller c's ApplyPatch on Room r returns.
ApplyPatchStep(c, r) ==
  call[c].pc = "called" /\ call[c].room = r /\ call'[c].pc = "returned"

Thm_C3_VersionConflictNoEffect ==
  [][\A c \in Clients, r \in RoomIds :
       (ApplyPatchStep(c, r) /\ call[c].expected # Version[r]) =>
         /\ call'[c].err = "VersionConflictError"
         /\ call'[c].CurrentVersion = Version[r]
         /\ call'[c].ExpectedVersion = call[c].expected
         /\ CurrentState'[r] = CurrentState[r]
         /\ Version'[r] = Version[r]
         /\ lastPersistedVersion'[r] = lastPersistedVersion[r]
         /\ flush' = flush
    ]_vars

Wit_C3_ConflictOnMalformedPatch ==
  \E c \in Clients :
    /\ Returned(c)
    /\ call[c].patch \in {NotJSON, NotArray}
    /\ call[c].err = "VersionConflictError"
    /\ call[c].ExpectedVersion # Version[call[c].room]

\* Patch bodies that no document accepts.
NeverApplicable == {NotJSON, NotArray, MissingOp, ReplaceMissing, EarlyOkLateFail}

\* C4: with the right expectedVersion, a patch that cannot be decoded or cannot
\* be applied returns PatchError and leaves CurrentState and Version as they
\* were, also when an early operation of the patch would have succeeded.
Thm_C4_PatchAllOrNothing ==
  [][\A c \in Clients, r \in RoomIds :
       (/\ ApplyPatchStep(c, r)
        /\ call[c].expected = Version[r]
        /\ \/ call[c].patch \in NeverApplicable
           \/ ~DecodeOk(call[c].patch)
           \/ PatchApply(CurrentState[r], DecodePatch(call[c].patch)) = Fail) =>
         /\ call'[c].err = "PatchError"
         /\ CurrentState'[r] = CurrentState[r]
         /\ Version'[r] = Version[r]
    ]_vars

Wit_C4_LateOperationFailed ==
  \E c \in Clients :
    /\ Returned(c)
    /\ call[c].patch = EarlyOkLateFail
    /\ call[c].err = "PatchError"
    /\ CurrentState[call[c].room]["/components/1/name"] = "Page"

\* C5 (as claimed): when Stop has returned, the stored version of the page is
\* at least the Room's Version at the moment Stop was called -- stated here
\* for the runs in which the database itself never fails.
Cex_C5_StopReturnsAfterSuccessfulFlush ==
  \A s \in Stoppers :
    (stopPc[s].pc = "returned" /\ ~hist.dbFault) =>
      db[roomID[stopPc[s].room]].version >= stopPc[s].calledAt

\* C8 (as claimed): with no successful ApplyPatch in between, at most one
\* SavePageState call is made -- stated for the runs without database errors.
Cex_C8_AtMostOneSaveCall ==
  \A r \in RoomIds : ~hist.dbFault => hist.saveCalls[r] \in {"none", "one"}

\* A step in which a flushToDB invocation of r leaves its first critical
\* section and goes on to call SavePageState.
CaptureStep(r, f) == flush[r][f].pc \in {"idle", "start"} /\ flush'[r][f].pc = "save"

\* C8 (amended): a flushToDB invocation that finds Version =
\* lastPersistedVersion makes no SavePageState call; and once a flush has saved
\* the current Version and advanced lastPersistedVersion, the two stay equal
\* until the next successful ApplyPatch, so flushes invoked after it call
\* nothing.
Thm_C8_FlushIdempotent ==
  /\ [](\A r \in RoomIds :
          hist.flushedCurrent[r] => lastPersistedVersion[r] = Version[r])
  /\ [][\A r \in RoomIds, f \in Flushers :
          CaptureStep(r, f) =>
            /\ Version[r] # lastPersistedVersion[r]
            /\ ~hist.flushedCurrent[r]
            /\ hist'.saveCalls = hist.saveCalls
       ]_vars

Wit_C8_NoopFlushAfterSave ==
  /\ hist.flushedCurrent[1]
  /\ hist.noopAfterFlush[1]
  /\ hist.saveCalls[1] = "one"
  /\ db["page1"].version = Version[1]

\* C6 (as claimed): for every page that has a Room in the Hub directory,
\* lastPersistedVersion <= Version for that Room and the stored version of the
\* page is <= that Room's Version.
Cex_C6_StorageNeverAheadOfMemory ==
  \A p \in PageIds :
    rooms[p] # NoRoom =>
      /\ lastPersistedVersion[rooms[p]] <= Version[rooms[p]]
      /\ db[p].exists => db[p].version <= Version[rooms[p]]

\* C7: lastPersistedVersion of a Room never decreases, whatever the
\* interleaving of timer, threshold and final flushes; a flush that captured an
\* older version and commits after a newer one leaves the newer value.
Thm_C7_LastPersistedNeverDecreases ==
  [][\A r \in RoomIds : lastPersistedVersion'[r] >= lastPersistedVersion[r]]_vars

Wit_C7_StaleFlushCommitted ==
  /\ hist.staleCommit
  /\ \E r \in RoomIds :
       /\ lastPersistedVersion[r] = Version[r]
       /\ db[roomID[r]].exists
       /\ db[roomID[r]].version < lastPersistedVersion[r]

\* A step of Room.run's broadcast case on Room r: the head of r.broadcast is
\* taken.
BroadcastStep(r) ==
  /\ broadcast[r] # <<>>
  /\ broadcast'[r] = Tail(broadcast[r])

Recipients(r) == clients[r] \ {Head(broadcast[r]).Sender}

\* C9: when the loop processes a critical broadcast, every recipient whose
\* mailbox is full is removed from the Room's clients and its mailbox is
\* closed, and every other recipient (attached, not the sender) has the message
\* appended to its mailbox and stays attached.
Thm_C9_SlowConsumerEviction ==
  [][\A r \in RoomIds :
       (BroadcastStep(r) /\ Head(broadcast[r]).IsCritical) =>
         \A c \in Recipients(r) :
           IF Len(send[c]) = SendCap
           THEN c \notin clients'[r] /\ sendClosed'[c]
           ELSE /\ send'[c] = Append(send[c], Head(broadcast[r]).Message)
                /\ c \in clients'[r]
                /\ ~sendClosed'[c]
    ]_vars

Wit_C9_OneEvictedOtherServed ==
  /\ hist.lastBroadcast.critical
  /\ \E c, d \in Clients :
       /\ c \in hist.lastBroadcast.evicted
       /\ sendClosed[c] /\ c \notin clients[1] /\ clientRoom[c] = 1
       /\ d \in hist.lastBroadcast.delivered
       /\ d \in clients[1] /\ ~sendClosed[d]
       /\ send[d] # <<>>
       /\ send[d][Len(send[d])].Code = "PAGE_DELETED"

\* C10: when the loop processes a non-critical broadcast, a recipient whose
\* mailbox is full only misses the message: it stays in the Room's clients,
\* its mailbox is neither closed nor changed, every recipient with room gets
\* the message, and CurrentState and Version are unchanged.
Thm_C10_NonCriticalDropped ==
  [][\A r \in RoomIds :
       (BroadcastStep(r) /\ ~Head(broadcast[r]).IsCritical) =>
         /\ \A c \in Recipients(r) :
              IF Len(send[c]) = SendCap
              THEN send'[c] = send[c]
              ELSE send'[c] = Append(send[c], Head(broadcast[r]).Message)
         /\ clients'[r] = clients[r]
         /\ sendClosed' = sendClosed
         /\ CurrentState' = CurrentState
         /\ Version' = Version
    ]_vars

Wit_C10_CursorMoveDropped ==
  /\ ~hist.lastBroadcast.critical
  /\ \E c \in hist.lastBroadcast.dropped :
       /\ c \in clients[1]
       /\ ~sendClosed[c]
       /\ Len(send[c]) = SendCap
       /\ \A i \in 1..Len(send[c]) : send[c][i].Type # "cursor-move"
  /\ hist.successes[1] > 0

\* C11: broadcast order matches application order.  The patch applied at
\* version V carries V; whenever the loop enqueues an edit-patch message in a
\* connection's mailbox, the message's version is above that of every
\* edit-patch message enqueued there before, whichever connections sent them.
Cex_C11_BroadcastOrderIsApplicationOrder ==
  [][\A r \in RoomIds :
       (BroadcastStep(r) /\ Head(broadcast[r]).Message.Type = "op-patch") =>
         \A c \in Recipients(r) :
           send'[c] = Append(send[c], Head(broadcast[r]).Message)
             => Head(broadcast[r]).Message.Version > hist.lastPatch[c]
    ]_vars

\* A step of GetOrCreateRoom's slow path by c that found no Room in the
\* directory, so that GetPageState is called.
LoadStep(c) ==
  /\ call[c].pc = "loading"
  /\ call'[c].pc # "loading"
  /\ rooms[call[c].page] = NoRoom

\* C12: when GetPageState reports an error, GetOrCreateRoom returns that error
\* and no Room: the directory is unchanged, no Room is constructed and no
\* event loop is started; for a page that is not stored the call always ends
\* this way, with ErrPageNotFound unless the query itself failed.
Thm_C12_LoadErrorCreatesNoRoom ==
  [][\A c \in Conns :
       LoadStep(c) =>
         /\ ~db[call[c].page].exists =>
              /\ call'[c].pc = "gone"
              /\ call'[c].err \in {"ErrPageNotFound", "ErrDatabase"}
         /\ call'[c].pc = "gone" =>
              /\ call'[c].err \in {"ErrPageNotFound", "ErrDatabase"}
              /\ call'[c].room = NoRoom
              /\ rooms' = rooms
              /\ roomID' = roomID
              /\ loopPc' = loopPc
    ]_vars

Wit_C12_PageNotFound ==
  \E c \in Conns :
    /\ call[c].pc = "gone"
    /\ call[c].err = "ErrPageNotFound"
    /\ ~db[call[c].page].exists
    /\ rooms[call[c].page] = NoRoom
    /\ hist.loads[call[c].page] # "none"

\* GetOrCreateRoom has returned to c; the Room it returned, if any.
Finished(c) == call[c].pc \notin {"connect", "fastcheck", "return", "slow", "loading"}
Obtained(c) == IF call[c].pc = "register" THEN call[c].room ELSE clientRoom[c]
LoadFailed(c) == call[c].err \in {"ErrPageNotFound", "ErrDatabase"}
Constructed == {r \in RoomIds : RoomLive(r)}

\* C13 as stated: once every concurrent GetOrCreateRoom call for a page that
\* had no Room has returned, GetPageState was called exactly once, exactly one
\* Room was constructed, and every call returned that Room.
Cex_C13_OneLoadOneRoomForAllCalls ==
  (\A c \in Clients : Finished(c)) =>
    /\ hist.loads["page1"] = "one"
    /\ Cardinality(Constructed) = 1
    /\ \A c \in Clients : Obtained(c) # NoRoom /\ Obtained(c) = rooms["page1"]

\* C13, amended: among concurrent GetOrCreateRoom calls for a page that has no
\* Room, at most one Room is ever constructed and every call that returns a
\* Room returns the instance in the directory; GetPageState is called again
\* only after a call whose load failed, and when no load failed it was called
\* exactly once and every call returned the one Room.
Thm_C13_SingleConstruction ==
  /\ Cardinality(Constructed) <= 1
  /\ \A c \in Clients :
       (Finished(c) /\ ~LoadFailed(c)) =>
         /\ Obtained(c) # NoRoom
         /\ Obtained(c) = rooms["page1"]
         /\ Obtained(c) \in Constructed
  /\ hist.loads["page1"] = "many" => \E c \in Clients : LoadFailed(c)
  /\ ((\A c \in Clients : Finished(c)) /\ (\A c \in Clients : ~LoadFailed(c)))
       => hist.loads["page1"] = "one" /\ Cardinality(Constructed) = 1

Wit_C13_SecondCallFoundTheRoom ==
  /\ NumClients >= 2
  /\ \A c \in Clients : call[c].pc = "register" /\ call[c].room = rooms["page1"]
  /\ hist.loads["page1"] = "one"
  /\ hist.recheck
  /\ Cardinality(Constructed) = 1

\* GetOrCreateRoom returns a Room to c in this step.
ReturnsRoom(c) ==
  /\ call[c].pc \in {"return", "slow", "loading"}
  /\ call'[c].pc = "register"

\* C14: GetOrCreateRoom never hands out a Room on which Stop or
\* StopWithReason has begun: a call that reads the stopping flag set returns
\* ErrRoomClosing, and a Room is not stopping at the moment it is returned.
Cex_C14_NeverReturnsStoppingRoom ==
  [][\A c \in Conns :
       /\ (call[c].pc = "fastcheck" /\ stopping[call[c].room])
            => (call'[c] = call[c] \/ call'[c].err = "ErrRoomClosing")
       /\ ReturnsRoom(c) => ~stopping[call'[c].room]
    ]_vars

\* C15: the idle path stops a Room only if it has no attached connection when
\* the stop takes effect: whenever handleIdleRoom's Stop has returned, the
\* Room's connection set is empty.
Cex_C15_IdleStopOnlyWhenEmpty ==
  \A s \in Stoppers :
    (stopPc[s].by = "hub" /\ stopPc[s].pc = "returned")
      => clients[stopPc[s].room] = {}

\* handleIdleRoom's last step, by goroutine s.
IdleRemoveStep(s) ==
  /\ stopPc[s].pc = "returned"
  /\ stopPc[s].by = "hub"
  /\ stopPc'[s].pc = "idle"

\* C16: the idle path deletes a directory entry only if the entry still holds
\* the Room that reported idle: handleIdleRoom's last step leaves every entry
\* holding another Room (or none) as it is, and empties the entry that holds
\* its own Room.
Thm_C16_IdleRemovesOnlySameInstance ==
  [][\A s \in Stoppers :
       IdleRemoveStep(s) =>
         \A p \in PageIds :
           IF rooms[p] = stopPc[s].room
           THEN rooms'[p] = NoRoom
           ELSE rooms'[p] = rooms[p]
    ]_vars

Wit_C16_ReplacementKept ==
  /\ hist.idleDone = "replaced"
  /\ rooms["page1"] \notin {NoRoom, 1}
  /\ loopPc[1] = "exited"
  /\ loopPc[rooms["page1"]] = "select"

\* DeletePage has removed the directory entry and not yet the stored record.
Evicting == delPc.pc \in {"stop", "notify", "close", "wait", "delete"}

\* C17: deletion evicts the session.  Between CloseRoom's removal of the
\* entry and the deletion of the record no GetOrCreateRoom call for the page
\* returns a Room, and when the record is deleted the directory holds no Room
\* for the page.
Cex_C17_NoRoomWhileDeleting ==
  [][/\ \A c \in Conns :
          (Evicting /\ ReturnsRoom(c)) => call'[c].page # delPc.page
     /\ (delPc.pc = "delete" /\ delPc'.pc = "done") => rooms[delPc.page] = NoRoom
    ]_vars

\* Register returns to c in this step.
RegisterReturns(c) == call[c].pc = "register" /\ call'[c].pc # "register"

\* C18: Register always returns.  A pending Register ends, either with the
\* connection in the Room's connection set or, the Room having been stopped,
\* with ErrRoomClosed; a Room whose loop has exited has its stopChan closed,
\* so that Register on it can return.
Thm_C18_RegisterReturns ==
  /\ \A c \in Clients : (call[c].pc = "register") ~> (call[c].pc # "register")
  /\ [](\A r \in RoomIds : loopPc[r] \in {"final", "exited"} => stopChan[r] = "closed")
  /\ [][\A c \in Clients :
          RegisterReturns(c) =>
            \/ c \in clients'[call[c].room] /\ call'[c].err # "ErrRoomClosed"
            \/ /\ call'[c].err = "ErrRoomClosed"
               /\ stopChan[call[c].room] = "closed"
               /\ clients' = clients
       ]_vars

Wit_C18_ClosedAfterLoopExit ==
  \E c \in Clients :
    /\ call[c].pc = "gone"
    /\ call[c].err = "ErrRoomClosed"
    /\ loopPc[call[c].room] = "exited"
    /\ clientRoom[c] = NoRoom
    /\ \E d \in Clients \ {c} : clientRoom[d] = call[c].room

\* Every client has been attached to Room 1 and the Room's connection set is
\* empty; no client of this specification registers twice.
AllLeft == clients[1] = {} /\ \A c \in Clients : clientRoom[c] = 1

TornDown == loopPc[1] = "exited" /\ rooms["page1"] # 1

\* C20: idle teardown is eventually performed.  Once the Room's connection
\* set is empty and no connection registers afterwards, the Room is
\* eventually stopped, its final flush run and its entry removed from the
\* directory, whether the connections left by Unregister or by eviction.
Cex_C20_IdleTeardownEventually == AllLeft ~> TornDown

\* C19: Unregister of a connection that is not in the Room's connection set
\* is a no-op: the connection set, clientCount and every mailbox stay as they
\* are, no mailbox is closed, and nothing is sent on idleRoom.
Thm_C19_StrayUnregisterNoOp ==
  [][\A c \in Clients :
       (call[c].pc = "unregister" /\ call'[c].pc = "gone"
          /\ c \notin clients[clientRoom[c]]) =>
         /\ clients' = clients
         /\ clientCount' = clientCount
         /\ sendClosed' = sendClosed
         /\ send' = send
         /\ idleRoom' = idleRoom
    ]_vars

Wit_C19_EvictedThenLeft ==
  \E c \in hist.strayLeave :
    /\ call[c].pc = "gone"
    /\ sendClosed[c]
    /\ c \notin clients[clientRoom[c]]
    /\ loopPc[clientRoom[c]] = "select"

\* GetSnapshot's critical section runs for c in this step.
GetSnapshotStep(c) == call[c].pc = "idle" /\ call'[c].pc = "snapshot"

\* C21: snapshot isolation.  GetSnapshot returns the bytes and the version
\* the Room holds together at the moment of its critical section, whatever
\* ApplyPatch calls are pending or have run, and a caller writing into the
\* bytes it received changes neither the Room's CurrentState nor its Version.
Thm_C21_SnapshotIsolation ==
  [][\A c \in Clients :
       /\ GetSnapshotStep(c) =>
            /\ call'[c].snapshot = CurrentState[call'[c].room]
            /\ call'[c].version = Version[call'[c].room]
            /\ UNCHANGED stateVars
       /\ (call[c].pc = "snapshot" /\ call'[c].pc = "returned") =>
            /\ call'[c].snapshot # call[c].snapshot
            /\ UNCHANGED stateVars
    ]_vars

\* A caller has written into a snapshot taken between two edits, while an
\* ApplyPatch call of another goroutine waits for the lock.
Wit_C21_SnapshotBetweenEdits ==
  \E c, d \in Clients :
    /\ call[c].pc = "returned"
    /\ call[c].version = 2
    /\ call[c].snapshot = Overwritten(CurrentState[1])
    /\ CurrentState[1] = PatchApply(DefaultSchema, DecodePatch(ReplaceName))
    /\ call[d].pc = "called"

\* The threshold goroutines of r that have been started and have not run yet.
Started(r) == {g \in 1..MaxFlushGoroutines : flush[r][g].pc = "start"}

\* C22: threshold flush.  A successful ApplyPatch that leaves Version -
\* lastPersistedVersion >= FlushThreshold starts a flush goroutine and returns
\* without a save having run in the call; every other ApplyPatch (failed, or
\* below the threshold) starts none and a failed one leaves Version as it is;
\* and once a goroutine is started SavePageState is eventually called.
Thm_C22_ThresholdFlush ==
  /\ [][\A c \in Clients, r \in RoomIds :
          ApplyPatchStep(c, r) =>
            /\ call'[c].pc = "returned"
            /\ db' = db
            /\ IF call'[c].err = "nil"
                    /\ Version'[r] - lastPersistedVersion'[r] >= FlushThreshold
               THEN \E g \in Started(r)' : g \notin Started(r)
               ELSE flush' = flush
            /\ call'[c].err # "nil" => Version' = Version
       ]_vars
  /\ \A r \in RoomIds :
       (Started(r) # {} /\ hist.saveCalls[r] = "none") ~> (hist.saveCalls[r] # "none")

Wit_C22_SavedAfterCallerReturned ==
  /\ hist.failed
  /\ call[1].pc = "idle"
  /\ Version[1] = FlushThreshold + 1
  /\ \E g \in 1..MaxFlushGoroutines :
       /\ flush[1][g].reason = "threshold"
       /\ flush[1][g].pc = "commit"
  /\ db["page1"].version = FlushThreshold + 1

\* handleOpPatch acts on the result of ApplyPatch for c in this step.
OutcomeStep(c) == call[c].pc = "returned" /\ call'[c].pc # "returned"

\* C23: outcome routing of an inbound edit-patch.  After a successful
\* ApplyPatch the original message is submitted to the Room as a critical
\* broadcast with the originator as sender and no mailbox changes; the loop
\* never delivers it to the originator; after a failed ApplyPatch exactly one
\* error message is enqueued in the originator's mailbox, no other mailbox
\* changes and nothing is broadcast.
Cex_C23_OutcomeRouting ==
  [][/\ \A c \in Clients :
          OutcomeStep(c) =>
            LET r == call[c].room
            IN IF call[c].err = "nil"
               THEN /\ broadcast'[r] = Append(broadcast[r],
                         RoomBroadcast(OpPatchMessage(c, call[c].expected), c, TRUE))
                    /\ send' = send
               ELSE /\ Len(send'[c]) = Len(send[c]) + 1
                    /\ send'[c][Len(send'[c])].Type = "error"
                    /\ \A d \in Conns \ {c} : send'[d] = send[d]
                    /\ broadcast' = broadcast
     /\ \A r \in RoomIds :
          (BroadcastStep(r) /\ Head(broadcast[r]).Sender # NoClient) =>
            send'[Head(broadcast[r]).Sender] = send[Head(broadcast[r]).Sender]
    ]_vars

\* The register case attaches c to r in this step.
JoinStep(r, c) == c \notin clients[r] /\ c \in clients'[r]

\* The unregister case removes c from r in this step (an eviction removes a
\* connection in the broadcast case, which takes a message off the queue).
LeaveStep(r, c) ==
  /\ c \in clients[r]
  /\ c \notin clients'[r]
  /\ broadcast'[r] = broadcast[r]

\* A message of the given type is put into d's mailbox, or submitted to the
\* Room for broadcasting, in this step.
Announced(r, d, type) ==
  \/ /\ Len(send'[d]) = Len(send[d]) + 1
     /\ send'[d][Len(send'[d])].Type = type
  \/ /\ Len(broadcast'[r]) = Len(broadcast[r]) + 1
     /\ broadcast'[r][Len(broadcast'[r])].Message.Type = type

\* C24: membership changes are announced to peers.  When a connection is
\* registered every other attached connection is sent a "user-join" message,
\* and when a connection is unregistered every remaining attached connection
\* is sent a "user-leave" message.
Cex_C24_MembershipAnnounced ==
  [][\A r \in RoomIds, c \in Clients :
       /\ JoinStep(r, c) =>
            \A d \in clients[r] \ {c} : Announced(r, d, "user-join")
       /\ LeaveStep(r, c) =>
            \A d \in clients'[r] : Announced(r, d, "user-leave")
    ]_vars

\* The stop of r has completed: its loop has left and closed doneChan.
StopCompleted(r) == doneChan[r] = "closed"

\* C25: teardown severs connections.  Once the stop of a Room has completed,
\* no connection is attached to it with an open mailbox.
Cex_C25_TeardownSeversConnections ==
  \A r \in RoomIds :
    StopCompleted(r) => \A c \in clients[r] : sendClosed[c]

\* The loop of r takes the stop case in this step.
LoopExitStep(r) ==
  /\ loopPc[r] = "select"
  /\ loopPc'[r] \in {"final", "exited"}

\* The PAGE_DELETED broadcast of StopWithReason is still on r's queue.
ReasonPending(r) ==
  \E i \in DOMAIN broadcast[r] : broadcast[r][i].Message.Code = "PAGE_DELETED"

\* C26: the stop signal never overtakes the reason broadcast.  When the loop
\* of a Room closed by CloseRoom exits and a connection with room in its
\* mailbox is attached, the PAGE_DELETED message is no longer waiting on the
\* broadcast queue: the loop has delivered it.
Cex_C26_ReasonBeforeStop ==
  [][\A r \in RoomIds :
       (LoopExitStep(r) /\ \E c \in clients[r] : Len(send[c]) < SendCap)
         => ~ReasonPending(r)
    ]_vars

\* C27: error code of a rejected patch.  The error message enqueued for a
\* patch that ApplyPatch refused because its body does not decode carries the
\* code PATCH_INVALID, and the one for a patch that decodes and cannot be
\* applied carries PATCH_FAILED.
Cex_C27_RejectedPatchCode ==
  [][\A c \in Clients :
       (OutcomeStep(c) /\ call[c].err = "PatchError" /\ ~sendClosed[c]) =>
         send'[c][Len(send'[c])].Code =
           (IF call[c].reason = "decode" THEN "PATCH_INVALID" ELSE "PATCH_FAILED")
    ]_vars

\* GetPage looks the page up in the directory in this step.
GetPageLookupStep(c) == call[c].pc = "idle" /\ call'[c].pc \in {"hot", "cold"}

\* GetPage takes the snapshot of the Room it found in this step.
GetPageHotStep(c) == call[c].pc = "hot" /\ call'[c].pc = "page"

\* C28: GetPage read path.  When the directory holds a Room for the page,
\* stopping or not, GetPage goes on with that Room and returns the state and
\* version the Room holds, and neither step calls the repository or creates a
\* Room; the repository is read only by a GetPage that found no Room.
Thm_C28_GetPageReadPath ==
  [][/\ \A c \in Conns :
          /\ GetPageLookupStep(c) =>
               IF rooms[call'[c].page] # NoRoom
               THEN call'[c].pc = "hot" /\ call'[c].room = rooms[call'[c].page]
               ELSE call'[c].pc = "cold"
          /\ GetPageHotStep(c) =>
               /\ call'[c].err = "nil"
               /\ call'[c].snapshot = CurrentState[call[c].room]
               /\ call'[c].version = Version[call[c].room]
          /\ (GetPageLookupStep(c) \/ GetPageHotStep(c)) =>
               /\ hist'.repoReads = hist.repoReads
               /\ hist'.loads = hist.loads
               /\ roomID' = roomID
               /\ rooms' = rooms
     /\ hist'.repoReads # hist.repoReads =>
          \E c \in Conns : call[c].pc = "cold" /\ call[c].room = NoRoom
    ]_vars

\* GetPage has returned the state of a stopping Room that is ahead of the
\* stored page.
Wit_C28_ReadFromStoppingRoom ==
  /\ call[Observer].pc = "page"
  /\ call[Observer].room # NoRoom
  /\ stopping[call[Observer].room]
  /\ rooms["page1"] = call[Observer].room
  /\ db["page1"].exists
  /\ call[Observer].version > db["page1"].version

\* NewRoom constructs r in this step.
ConstructStep(r) == roomID[r] = NoPage /\ roomID'[r] # NoPage

\* The final flush of r is over: the loop has left and its flushToDB returned.
FinalFlushDone(r) ==
  /\ loopPc[r] = "exited"
  /\ doneChan[r] = "closed"
  /\ flush[r][LoopFlusher].pc = "idle"

\* C29: flush before removal.  handleIdleRoom takes a Room out of the
\* directory only when the Room's loop has exited and its final flush has
\* returned; a Room is constructed only for a page without a directory entry;
\* and when one is constructed, the final flush of every earlier Room of the
\* page is over and the version loaded is at least the version that Room's
\* flushes have saved.
Thm_C29_FlushBeforeRemoval ==
  [][/\ \A s \in Stoppers :
          (IdleRemoveStep(s) /\ rooms' # rooms) => FinalFlushDone(stopPc[s].room)
     /\ \A r \in RoomIds :
          ConstructStep(r) =>
            /\ rooms[roomID'[r]] = NoRoom
            /\ \A r0 \in RoomIds \ {r} :
                 roomID[r0] = roomID'[r] =>
                   /\ FinalFlushDone(r0)
                   /\ Version'[r] >= lastPersistedVersion[r0]
    ]_vars

\* Client 2 has a Room built after the idle path removed Room 1, loaded at
\* the version that Room 1's final flush saved.
Wit_C29_ReopenedAtFlushedVersion ==
  \E r \in RoomIds \ {1} :
    /\ RoomLive(r)
    /\ hist.idleDone = "same"
    /\ Version[1] > 1
    /\ hist.initVersion[r] = Version[1]

\* Stop returns to goroutine s in this step.
StopReturnStep(s) == stopPc[s].pc = "wait" /\ stopPc'[s].pc = "returned"

\* StopWithReason returns to CloseRoom in this step.
StopWithReasonReturnStep == delPc.pc = "wait" /\ delPc'.pc = "delete"

\* C30: concurrent and repeated Stop and StopWithReason.  stopChan is closed
\* once, by a step that finds it open, no call ends in the panic of a second
\* close, and every call returns only when the loop has exited and its final
\* flush has returned.
Thm_C30_StopOnceAndAwaited ==
  [][/\ \A r \in RoomIds : stopChan'[r] # stopChan[r] => stopChan[r] = "open"
     /\ \A s \in Stoppers :
          /\ stopPc'[s].pc # "panic"
          /\ StopReturnStep(s) => FinalFlushDone(stopPc[s].room)
     /\ delPc'.pc # "panic"
     /\ StopWithReasonReturnStep => FinalFlushDone(delPc.room)
    ]_vars

\* Stop has returned to both goroutines and StopWithReason to CloseRoom, all
\* for Room 1, whose final flush saved the edit.
Wit_C30_ThreeCallersReturned ==
  /\ \A s \in Stoppers : stopPc[s].pc = "returned" /\ stopPc[s].room = 1
  /\ delPc.pc = "delete"
  /\ delPc.room = 1
  /\ lastPersistedVersion[1] = Version[1]

\* SavePageState returns an error to flusher f of r in this step: the
\* database failed, or the stored version was not the oldVersion presented.
SaveFailStep(r, f) == flush[r][f].pc = "save" /\ flush'[r][f].pc = "idle"

\* From some point on no SavePageState call fails.
SavesEventuallySucceed ==
  <>[][\A r \in RoomIds, f \in Flushers : ~SaveFailStep(r, f)]_vars

\* The versions an edit can produce along one behaviour.
EditedVersions == UNION {{v + k : k \in 1..MaxEdits} : v \in StartVersions}

\* C31: a failed save.  The step in which SavePageState returns an error
\* leaves lastPersistedVersion, CurrentState and Version as they were; every
\* flush takes its span from the values the Room holds, which never decrease,
\* so the attempt after a failure presents an oldVersion and a newVersion no
\* smaller than the failed one (the same oldVersion when no other flush has
\* committed in between); and if from some point on no save fails, every
\* version the Room has accepted before Stop was called on it is eventually
\* the stored version or below it.
Cex_C31_FailedSaveIsRetried ==
  /\ [][\A r \in RoomIds :
          /\ \A f \in Flushers :
               /\ SaveFailStep(r, f) =>
                    /\ lastPersistedVersion'[r] = lastPersistedVersion[r]
                    /\ CurrentState'[r] = CurrentState[r]
                    /\ Version'[r] = Version[r]
               /\ CaptureStep(r, f) =>
                    /\ flush'[r][f].lastVersion = lastPersistedVersion[r]
                    /\ flush'[r][f].currentVersion = Version[r]
          /\ Version'[r] >= Version[r]
          /\ lastPersistedVersion'[r] >= lastPersistedVersion[r]
       ]_vars
  /\ SavesEventuallySucceed =>
       \A v \in EditedVersions :
         (Version[1] >= v /\ ~stopping[1]) ~> (db["page1"].version >= v)

\* GetPageState is in progress for the GetOrCreateRoom call of c.
LoadInFlight(c) == call[c].pc = "loading"

\* C32: GetOrCreateRoom does not hold the Hub's directory lock while
\* GetPageState is in progress: during a load h.mu is free, so that a caller
\* waiting to look a page up can do so.
Cex_C32_NoLockAcrossLoad ==
  \A c \in Conns :
    LoadInFlight(c) =>
      /\ hubMu # c
      /\ \A d \in Conns \ {c} :
           call[d].pc = "connect" =>
             \E p \in PageIds : ENABLED GetOrCreateRoomLookup(d, p)

\* A SavePageState call made by a flush of r is in progress.
SaveInFlight(r) == \E f \in Flushers : flush[r][f].pc = "save"

\* C33: the loop stays responsive during a flush.  Before the stop signal,
\* while a SavePageState call of a timer or threshold flush is in progress,
\* the loop of the Room is in its select, where it takes register,
\* unregister and broadcast events: it is never the loop that runs the save.
Cex_C33_LoopNeverSaves ==
  \A r \in RoomIds :
    (stopChan[r] = "open" /\ SaveInFlight(r)) =>
      /\ loopPc[r] = "select"
      /\ flush[r][LoopFlusher].pc # "save"

\* ApplyPatch accepts the patch of c in this step.
AcceptStep(c) ==
  /\ call[c].pc = "called"
  /\ call'[c].pc = "returned"
  /\ call'[c].err = "nil"

\* The final flush of r has run its first critical section.
FinalCaptured(r) == loopPc[r] \in {"final", "exited"}

\* r has been stopped and taken out of the directory.
StoppedAndRemoved(r) ==
  /\ RoomLive(r)
  /\ loopPc[r] = "exited"
  /\ rooms[roomID[r]] # r

\* C34: no accepted edit is lost at teardown.  ApplyPatch accepts no patch on
\* a Room whose final flush has captured its state; and, the database never
\* having failed, the stored version of a page whose Room has been stopped
\* and removed is the Version that Room holds.
Cex_C34_NoEditAfterFinalFlush ==
  /\ [][\A c \in Clients : AcceptStep(c) => ~FinalCaptured(call[c].room)]_vars
  /\ [](\A r \in RoomIds :
          (StoppedAndRemoved(r) /\ ~hist.dbFault /\ db[roomID[r]].exists) =>
            db[roomID[r]].version = Version[r])

\* C35: connection-count consistency.  Whenever the loop of a Room is between
\* events, clientCount is the number of connections in the Room's connection
\* set.
Cex_C35_ClientCountMatchesSet ==
  \A r \in RoomIds :
    (RoomLive(r) /\ loopPc[r] = "select") => clientCount[r] = Cardinality(clients[r])

\* C36: no send on a closed mailbox.  No reader ends in the panic of a send
\* on a mailbox the Room has closed, and the loop puts a message only into
\* mailboxes that are open.
Cex_C36_NoSendOnClosedMailbox ==
  /\ \A c \in Conns : call[c].pc # "panic"
  /\ \A c \in Conns : sendClosed[c] => \A r \in RoomIds : c \notin clients[r]

\* C37: once the stopping flag of a Room is set, no Register on it succeeds and
\* no connection is added to its connection set, also when the register
\* request and the stop signal are ready in the same select.
Cex_C37_NoRegisterAfterStopping ==
  [][\A r \in RoomIds, c \in Clients : JoinStep(r, c) => ~stopping[r]]_vars

\* The Room has been constructed and its loop has not exited: it still holds
\* a document in memory and may still write it to storage.
LoopRunning(r) == RoomLive(r) /\ loopPc[r] # "exited"

\* C38: at most one Room per document has a running loop, counting the Rooms
\* that CloseRoom has taken out of the directory and that are still stopping.
Cex_C38_OneLiveRoomPerPage ==
  \A r1, r2 \in RoomIds :
    (LoopRunning(r1) /\ LoopRunning(r2) /\ roomID[r1] = roomID[r2]) => r1 = r2

\* The broadcast case puts an op-patch message into the mailbox of c in this
\* step.
PatchDelivered(r, c) ==
  /\ broadcast[r] # <<>>
  /\ broadcast'[r] = Tail(broadcast[r])
  /\ Head(broadcast[r]).Message.Type = "op-patch"
  /\ Len(send'[c]) = Len(send[c]) + 1

\* C39: the first message to a new connection is the full sync with the
\* snapshot's version, and every op-patch the connection gets afterwards is
\* for a patch that was applied on a version at or above the sync's version.
Cex_C39_JoinConsistency ==
  [][\A r \in RoomIds, c \in Clients :
       /\ JoinStep(r, c) => send'[c] = <<SyncMessage(Version[r])>>
       /\ PatchDelivered(r, c) =>
            Head(broadcast[r]).Message.Version >= hist.syncVersion[c]]_vars

\* The reader of c is inside Room.Broadcast (after an accepted patch) or
\* inside sendError (after a refused one).
InBroadcast(c) == call[c].pc = "returned" /\ call[c].err = "nil"

InSendError(c) == call[c].pc = "returned" /\ call[c].err # "nil"

\* Somebody still receives from the broadcast queue of r.
LoopReceives(r) == loopPc[r] = "select"

\* C40: the reader never blocks forever in Room.Broadcast or in sendError:
\* whenever it is in one of them, either its send can complete or the
\* goroutine that drains the channel is still there to make room, also when
\* the loop has exited or the reader's own mailbox is full.
Cex_C40_ReaderNeverBlocksForever ==
  \A c \in Clients :
    /\ InBroadcast(c) => (ENABLED BroadcastPatch(c) \/ LoopReceives(call[c].room))
    /\ InSendError(c) => (ENABLED SendError(c) \/ ENABLED WriterTakes(c))

====
